---- MODULE Spec2Model ----
(***************************************************************************)
(* Model of the ethcontract-mock node (ethcontract-mock/src/details/mod.rs) *)
(* a mock transport holding chain state behind one mutex, and the           *)
(* per-method expectation engine the RPC calls are dispatched to.           *)
(***************************************************************************)
EXTENDS Integers, Sequences, FiniteSets, TLC

VARIABLES
    chain_id,            \* MockTransportState.chain_id
    gas_price,           \* MockTransportState.gas_price
    request_id,          \* MockTransportState.request_id
    block,               \* MockTransportState.block
    address,             \* MockTransportState.address (address counter)
    nonce,               \* MockTransportState.nonce : HashMap<Address, u64>
    contracts,           \* MockTransportState.contracts : HashMap<Address, Contract>
    receipts,            \* MockTransportState.receipts : HashMap<H256, TransactionReceipt>
    poisoned,            \* the state mutex is poisoned (a panic happened while it was held)
    satisfaction_level,  \* mockall SeqInner.satisfaction_level of the test's Sequence
    next_handle,         \* number of handles the test's Sequence has issued
    last,                \* what the last operation returned to its caller
    holder,              \* the thread that holds the guard of the state mutex, 0 if none
    locals,              \* per client thread: the handler it runs, where it is, its locals
    built                \* the run of TransactionBuilder::build: its input, the node's
                         \* answers, the requests sent to the node so far, its result

vars == <<chain_id, gas_price, request_id, block, address, nonce, contracts,
          receipts, poisoned, satisfaction_level, next_handle, last, holder,
          locals, built>>

(* What the operations of a single-threaded test leave alone. *)
elsewhere == <<holder, locals, built>>

chain == <<chain_id, gas_price, request_id, block, address, nonce, contracts, receipts>>

----------------------------------------------------------------------------
(* Bounds of the model *)

MaxDeploy == 3          \* contracts deployed
MaxContracts == 1       \* contracts deployed by the tests of a single contract
MaxExpect == 2          \* expectations registered, over all methods
MaxBlock == 3           \* raw transactions are sent while block < MaxBlock
MaxNonce == 1           \* nonces carried by raw transactions: 0..MaxNonce
MaxRequestId == 1       \* prepare is called while request_id < MaxRequestId
MaxGasPrice == 2        \* update_gas_price(1..MaxGasPrice)
MaxUsed == 3            \* calls are made while the usage counts add up to less

----------------------------------------------------------------------------
(* Values *)

TheChainId == 77        \* the argument of MockTransport::new

NoneV == -1             \* Option::None of a numeric or address field
Unbounded == -1         \* open upper end of a TimesRange
NoSeq == -1             \* Expectation.sequence = None

ZeroAddress == 0        \* H160::default()
Senders == {101, 102}

Range(s) == {s[i] : i \in 1..Len(s)}

Min(S) == CHOOSE x \in S : \A y \in S : x <= y

UnwrapOr(opt, dflt) == IF opt = NoneV THEN dflt ELSE opt

(* ABI function descriptors (ethabi Function): name, selector, input and
   output kinds, state mutability. *)
FnBalanceOf ==
    [name |-> "balanceOf", selector |-> <<0, 0, 0, 1>>,
     inputs |-> <<"address">>, outputs |-> <<"uint256">>,
     state_mutability |-> "View"]

FnDeposit ==
    [name |-> "deposit", selector |-> <<0, 0, 0, 2>>,
     inputs |-> <<"uint256">>, outputs |-> <<"bool", "uint256">>,
     state_mutability |-> "Payable"]

TheAbi == <<FnBalanceOf, FnDeposit>>

Abis == {TheAbi}

Selectors == {<<0, 0, 0, 1>>, <<0, 0, 0, 2>>, <<0, 0, 0, 3>>}

(* A token is <<kind, value>>; a tuple of tokens is a sequence of them. *)
Token(kind, v) == <<kind, v>>

----------------------------------------------------------------------------
(* TimesRange (crate::range): [lo, hi], hi possibly open. *)

TimesRangeDefault == [lo |-> 0, hi |-> Unbounded]

TimesCanCall(times, used) == times.hi = Unbounded \/ used < times.hi

TimesLowerBound(times) == times.lo

----------------------------------------------------------------------------
(* ABI library calls made by the engine *)

(* default::default_tuple: one zero token per kind, in order. *)
DefaultTuple(kinds) == [i \in 1..Len(kinds) |-> Token(kinds[i], 0)]

(* ethabi encode of a tuple of static tokens: one word per token, the kind
   is not part of the encoding. *)
Encode(tokens) == [i \in 1..Len(tokens) |-> tokens[i][2]]

(* Function::decode_input on data[4..]: one word per declared input. *)
CanDecodeInput(function, words) == Len(words) >= Len(function.inputs)

DecodeInput(function, words) ==
    [i \in 1..Len(function.inputs) |-> Token(function.inputs[i], words[i])]

(* P::from_token(Token::Tuple(params)) succeeds iff the kinds are P's. *)
FromTokenOk(ptype, params) ==
    /\ Len(ptype) = Len(params)
    /\ \A i \in 1..Len(params) : params[i][1] = ptype[i]

----------------------------------------------------------------------------
(* Predicate<P> and Returns<P, R>; the boxed closures of a test are named. *)

PredicateNone == [kind |-> "None", f |-> "-"]

ClosureHolds(f, tx, params) ==
    CASE f = "first_is_1" -> params[1][2] = 1
      [] f = "from_101" -> tx.from = 101
      [] f = "reenters" -> TRUE
      [] OTHER -> FALSE

PredicateCanCall(predicate, tx, params) ==
    CASE predicate.kind = "None" -> TRUE
      [] predicate.kind = "Predicate" -> ClosureHolds(predicate.f, tx, params)
      [] predicate.kind = "Function" -> ClosureHolds(predicate.f, tx, params)
      [] predicate.kind = "TxFunction" -> ClosureHolds(predicate.f, tx, params)

ReturnsDefault == [kind |-> "Default", error |-> "-", token |-> <<>>, f |-> "-"]

Ok(tokens) == [ok |-> TRUE, tokens |-> tokens, error |-> "-"]

Err(error) == [ok |-> FALSE, tokens |-> <<>>, error |-> error]

(* The closure calls an operation of the transport it is registered on
   before it answers. *)
CallsTransport(f) == f = "reenters"

(* The test's return closures: "nonzero" fails on a zero first parameter and
   echoes the parameters otherwise; "context" returns the call context;
   "reenters" echoes the parameters once its call of the transport is back. *)
ClosureResult(f, tx, params) ==
    CASE f = "nonzero" ->
            IF params[1][2] = 0 THEN Err("zero") ELSE Ok(params)
      [] f = "context" ->
            Ok(<<Token("bool", IF tx.is_view_call THEN 1 ELSE 0),
                 Token("address", tx.from), Token("address", tx.to),
                 Token("uint256", tx.nonce), Token("uint256", tx.gas),
                 Token("uint256", tx.gas_price), Token("uint256", tx.value)>>)
      [] f = "reenters" -> Ok(params)
      [] OTHER -> Err("-")

ReturnsProcessTx(returns, function, tx, params) ==
    CASE returns.kind = "Default" -> Ok(DefaultTuple(function.inputs))
      [] returns.kind = "Error" -> Err(returns.error)
      [] returns.kind = "Const" -> Ok(returns.token)
      [] returns.kind = "Function" -> ClosureResult(returns.f, tx, params)
      [] returns.kind = "TxFunction" -> ClosureResult(returns.f, tx, params)

----------------------------------------------------------------------------
(* mockall SeqHandle on the test's Sequence *)

SeqVerifyOk(seq, level) == seq = level

SeqSatisfy(seq, level) == level + 1

----------------------------------------------------------------------------
(* Expectation<P, R> *)

(* Mutant: a new expectation may be used once. *)
ExpectationNewOnce(ptype) ==
    [times |-> [lo |-> 0, hi |-> 1],
     used |-> 0,
     checked |-> FALSE,
     confirmations |-> 0,
     predicate |-> PredicateNone,
     allow_calls |-> TRUE,
     allow_transactions |-> TRUE,
     returns |-> ReturnsDefault,
     sequence |-> NoSeq,
     ptype |-> ptype]

ExpectationNew(ptype) ==
    [times |-> TimesRangeDefault,
     used |-> 0,
     checked |-> FALSE,
     confirmations |-> 0,
     predicate |-> PredicateNone,
     allow_calls |-> TRUE,
     allow_transactions |-> TRUE,
     returns |-> ReturnsDefault,
     sequence |-> NoSeq,
     ptype |-> ptype]

ExpIsActive(e) == TimesCanCall(e.times, e.used)

(* What Expectation::process_tx hands back: kind "None" (no match), "Some"
   (a TransactionResult) or "Panic"; exp and level are the expectation and
   the sequence's satisfaction level as the call leaves them. *)
ExpOut(kind, exp, level, result, confirmations, msg) ==
    [kind |-> kind, exp |-> exp, level |-> level, result |-> result,
     confirmations |-> confirmations, msg |-> msg]

(* Mutant: a view call is answered without being counted. *)
ExpProcessTxViewsUncounted(e, tx, function, params, level) ==
    LET e1 == [e EXCEPT !.checked = TRUE]
        e2 == IF tx.is_view_call THEN e1 ELSE [e1 EXCEPT !.used = @ + 1]
    IN  IF \/ tx.is_view_call /\ ~e.allow_calls
           \/ ~tx.is_view_call /\ ~e.allow_transactions
        THEN ExpOut("None", e1, level, Err("-"), 0, "-")
        ELSE IF ~TimesCanCall(e.times, e.used)
        THEN ExpOut("None", e1, level, Err("-"), 0, "-")
        ELSE IF ~FromTokenOk(e.ptype, params)
        THEN ExpOut("Panic", e1, level, Err("-"), 0, "unable to decode input")
        ELSE IF ~PredicateCanCall(e.predicate, tx, params)
        THEN ExpOut("None", e1, level, Err("-"), 0, "-")
        ELSE IF e.sequence # NoSeq /\ ~SeqVerifyOk(e.sequence, level)
        THEN ExpOut("Panic", e2, level, Err("-"), 0, "method sequence violation")
        ELSE ExpOut("Some", e2,
                    IF e.sequence # NoSeq /\ e2.used = TimesLowerBound(e.times)
                    THEN SeqSatisfy(e.sequence, level) ELSE level,
                    LET r == ReturnsProcessTx(e.returns, function, tx, params)
                    IN  IF r.ok THEN Ok(Encode(r.tokens)) ELSE r,
                    e.confirmations, "-")

(* Mutant: checked is set when the expectation matches, not when it is
   evaluated. *)
ExpProcessTxCheckedOnMatch(e, tx, function, params, level) ==
    LET e2 == [e EXCEPT !.checked = TRUE, !.used = @ + 1]
    IN  IF \/ tx.is_view_call /\ ~e.allow_calls
           \/ ~tx.is_view_call /\ ~e.allow_transactions
        THEN ExpOut("None", e, level, Err("-"), 0, "-")
        ELSE IF ~TimesCanCall(e.times, e.used)
        THEN ExpOut("None", e, level, Err("-"), 0, "-")
        ELSE IF ~FromTokenOk(e.ptype, params)
        THEN ExpOut("Panic", e, level, Err("-"), 0, "unable to decode input")
        ELSE IF ~PredicateCanCall(e.predicate, tx, params)
        THEN ExpOut("None", e, level, Err("-"), 0, "-")
        ELSE IF e.sequence # NoSeq /\ ~SeqVerifyOk(e.sequence, level)
        THEN ExpOut("Panic", e2, level, Err("-"), 0, "method sequence violation")
        ELSE ExpOut("Some", e2,
                    IF e.sequence # NoSeq /\ e2.used = TimesLowerBound(e.times)
                    THEN SeqSatisfy(e.sequence, level) ELSE level,
                    LET r == ReturnsProcessTx(e.returns, function, tx, params)
                    IN  IF r.ok THEN Ok(Encode(r.tokens)) ELSE r,
                    e.confirmations, "-")

(* Mutant: the parameters are decoded and the predicate is asked before the
   call mode and the usage count are looked at. *)
ExpProcessTxPredicateFirst(e, tx, function, params, level) ==
    LET e1 == [e EXCEPT !.checked = TRUE]
        e2 == [e1 EXCEPT !.used = @ + 1]
    IN  IF ~FromTokenOk(e.ptype, params)
        THEN ExpOut("Panic", e1, level, Err("-"), 0, "unable to decode input")
        ELSE IF ~PredicateCanCall(e.predicate, tx, params)
        THEN ExpOut("None", e1, level, Err("-"), 0, "-")
        ELSE IF \/ tx.is_view_call /\ ~e.allow_calls
                \/ ~tx.is_view_call /\ ~e.allow_transactions
        THEN ExpOut("None", e1, level, Err("-"), 0, "-")
        ELSE IF ~TimesCanCall(e.times, e.used)
        THEN ExpOut("None", e1, level, Err("-"), 0, "-")
        ELSE IF e.sequence # NoSeq /\ ~SeqVerifyOk(e.sequence, level)
        THEN ExpOut("Panic", e2, level, Err("-"), 0, "method sequence violation")
        ELSE ExpOut("Some", e2,
                    IF e.sequence # NoSeq /\ e2.used = TimesLowerBound(e.times)
                    THEN SeqSatisfy(e.sequence, level) ELSE level,
                    LET r == ReturnsProcessTx(e.returns, function, tx, params)
                    IN  IF r.ok THEN Ok(Encode(r.tokens)) ELSE r,
                    e.confirmations, "-")

(* Mutant: the sequence is advanced but never verified. *)
ExpProcessTxUnverified(e, tx, function, params, level) ==
    LET e1 == [e EXCEPT !.checked = TRUE]
        e2 == [e1 EXCEPT !.used = @ + 1]
    IN  IF \/ tx.is_view_call /\ ~e.allow_calls
           \/ ~tx.is_view_call /\ ~e.allow_transactions
        THEN ExpOut("None", e1, level, Err("-"), 0, "-")
        ELSE IF ~TimesCanCall(e.times, e.used)
        THEN ExpOut("None", e1, level, Err("-"), 0, "-")
        ELSE IF ~FromTokenOk(e.ptype, params)
        THEN ExpOut("Panic", e1, level, Err("-"), 0, "unable to decode input")
        ELSE IF ~PredicateCanCall(e.predicate, tx, params)
        THEN ExpOut("None", e1, level, Err("-"), 0, "-")
        ELSE ExpOut("Some", e2,
                    IF e.sequence # NoSeq /\ e2.used = TimesLowerBound(e.times)
                    THEN SeqSatisfy(e.sequence, level) ELSE level,
                    LET r == ReturnsProcessTx(e.returns, function, tx, params)
                    IN  IF r.ok THEN Ok(Encode(r.tokens)) ELSE r,
                    e.confirmations, "-")

ExpProcessTx(e, tx, function, params, level) ==
    LET e1 == [e EXCEPT !.checked = TRUE]
        e2 == [e1 EXCEPT !.used = @ + 1]
    IN  IF \/ tx.is_view_call /\ ~e.allow_calls
           \/ ~tx.is_view_call /\ ~e.allow_transactions
        THEN ExpOut("None", e1, level, Err("-"), 0, "-")
        ELSE IF ~TimesCanCall(e.times, e.used)
        THEN ExpOut("None", e1, level, Err("-"), 0, "-")
        ELSE IF ~FromTokenOk(e.ptype, params)
        THEN ExpOut("Panic", e1, level, Err("-"), 0, "unable to decode input")
        ELSE IF ~PredicateCanCall(e.predicate, tx, params)
        THEN ExpOut("None", e1, level, Err("-"), 0, "-")
        ELSE IF e.sequence # NoSeq /\ ~SeqVerifyOk(e.sequence, level)
        THEN ExpOut("Panic", e2, level, Err("-"), 0, "method sequence violation")
        ELSE ExpOut("Some", e2,
                    IF e.sequence # NoSeq /\ e2.used = TimesLowerBound(e.times)
                    THEN SeqSatisfy(e.sequence, level) ELSE level,
                    LET r == ReturnsProcessTx(e.returns, function, tx, params)
                    IN  IF r.ok THEN Ok(Encode(r.tokens)) ELSE r,
                    e.confirmations, "-")

----------------------------------------------------------------------------
(* Method *)

MethodNew(addr, function) ==
    [description |-> <<function.name, addr>>,
     function |-> function,
     generation |-> 0,
     expectations |-> <<>>]

(* Mutant: the new expectation is put in front of the others. *)
MethodExpectInFront(m, ptype) ==
    [method |-> [m EXCEPT !.expectations = <<ExpectationNew(ptype)>> \o @],
     handle |-> <<Len(m.expectations), m.generation>>]

(* Method::expect: the method with the new expectation, and the handle. *)
MethodExpect(m, ptype) ==
    [method |-> [m EXCEPT !.expectations = Append(@, ExpectationNew(ptype))],
     handle |-> <<Len(m.expectations), m.generation>>]

(* What Method::process_tx and Contract::process_tx hand back: the
   expectation list as the call leaves it, and the outcome. *)
TxOut(kind, expectations, level, result, confirmations, msg) ==
    [kind |-> kind, expectations |-> expectations, level |-> level,
     result |-> result, confirmations |-> confirmations, msg |-> msg]

RECURSIVE ScanExpectations(_, _, _, _, _, _)
(* Mutant: a call nothing matches is answered with a revert. *)
ScanExpectationsReverts(exps, i, tx, function, params, level) ==
    IF i > Len(exps)
    THEN TxOut("Some", exps, level, Err("unexpected call"), 0, "-")
    ELSE IF ~ExpIsActive(exps[i])
    THEN ScanExpectations(exps, i + 1, tx, function, params, level)
    ELSE LET r == ExpProcessTx(exps[i], tx, function, params, level)
             exps1 == [exps EXCEPT ![i] = r.exp]
         IN  IF r.kind = "None"
             THEN ScanExpectations(exps1, i + 1, tx, function, params, level)
             ELSE TxOut(r.kind, exps1, r.level, r.result, r.confirmations, r.msg)

(* Mutant: an exhausted expectation rejects the call instead of passing it on. *)
ScanExpectationsRejectExhausted(exps, i, tx, function, params, level) ==
    IF i > Len(exps)
    THEN TxOut("Panic", exps, level, Err("-"), 0, "unexpected call")
    ELSE IF ~ExpIsActive(exps[i])
    THEN TxOut("Panic", exps, level, Err("-"), 0, "expectation exhausted")
    ELSE LET r == ExpProcessTx(exps[i], tx, function, params, level)
             exps1 == [exps EXCEPT ![i] = r.exp]
         IN  IF r.kind = "None"
             THEN ScanExpectations(exps1, i + 1, tx, function, params, level)
             ELSE TxOut(r.kind, exps1, r.level, r.result, r.confirmations, r.msg)

(* Mutant: the scan does not stop at the first match, the last match wins. *)
ScanExpectationsToTheEnd(exps, i, tx, function, params, level) ==
    IF i > Len(exps)
    THEN TxOut("Panic", exps, level, Err("-"), 0, "unexpected call")
    ELSE IF ~ExpIsActive(exps[i])
    THEN ScanExpectations(exps, i + 1, tx, function, params, level)
    ELSE LET r == ExpProcessTx(exps[i], tx, function, params, level)
             exps1 == [exps EXCEPT ![i] = r.exp]
             rest == ScanExpectations(exps1, i + 1, tx, function, params, r.level)
         IN  IF r.kind = "None" \/ (r.kind = "Some" /\ rest.kind = "Some")
             THEN rest
             ELSE TxOut(r.kind, exps1, r.level, r.result, r.confirmations, r.msg)

ScanExpectations(exps, i, tx, function, params, level) ==
    IF i > Len(exps)
    THEN TxOut("Panic", exps, level, Err("-"), 0, "unexpected call")
    ELSE IF ~ExpIsActive(exps[i])
    THEN ScanExpectations(exps, i + 1, tx, function, params, level)
    ELSE LET r == ExpProcessTx(exps[i], tx, function, params, level)
             exps1 == [exps EXCEPT ![i] = r.exp]
         IN  IF r.kind = "None"
             THEN ScanExpectations(exps1, i + 1, tx, function, params, level)
             ELSE TxOut(r.kind, exps1, r.level, r.result, r.confirmations, r.msg)

(* Mutant: the value of a non-payable method is looked at after the scan. *)
MethodProcessTxGuardLast(m, tx, data, level) ==
    IF ~CanDecodeInput(m.function, SubSeq(data, 5, Len(data)))
    THEN TxOut("Panic", m.expectations, level, Err("-"), 0,
               "unable to decode input")
    ELSE LET out == ScanExpectations(m.expectations, 1, tx, m.function,
                        DecodeInput(m.function, SubSeq(data, 5, Len(data))),
                        level)
         IN  IF tx.value # 0 /\ m.function.state_mutability # "Payable"
             THEN TxOut("Panic", out.expectations, out.level, Err("-"), 0,
                        "call to non-payable with non-zero value")
             ELSE out

MethodProcessTx(m, tx, data, level) ==
    IF tx.value # 0 /\ m.function.state_mutability # "Payable"
    THEN TxOut("Panic", m.expectations, level, Err("-"), 0,
               "call to non-payable with non-zero value")
    ELSE IF ~CanDecodeInput(m.function, SubSeq(data, 5, Len(data)))
    THEN TxOut("Panic", m.expectations, level, Err("-"), 0,
               "unable to decode input")
    ELSE ScanExpectations(m.expectations, 1, tx, m.function,
                          DecodeInput(m.function, SubSeq(data, 5, Len(data))),
                          level)

----------------------------------------------------------------------------
(* Contract *)

ContractNew(addr, abi) ==
    [address |-> addr,
     methods |->
        [s \in {abi[i].selector : i \in 1..Len(abi)} |->
            MethodNew(addr,
                abi[CHOOSE i \in 1..Len(abi) :
                        /\ abi[i].selector = s
                        /\ \A j \in (i + 1)..Len(abi) : abi[j].selector # s])]]

HasMethod(c, signature) == signature \in DOMAIN c.methods

(* Mutant: a selector the contract does not have is answered with a revert. *)
ContractProcessTxReverting(c, tx, data, level) ==
    IF Len(data) < 4
    THEN [contract |-> c,
          out |-> TxOut("Panic", <<>>, level, Err("-"), 0,
                        "transaction has invalid call data")]
    ELSE IF ~HasMethod(c, SubSeq(data, 1, 4))
    THEN [contract |-> c,
          out |-> TxOut("Some", <<>>, level, Err("no such method"), 0, "-")]
    ELSE LET signature == SubSeq(data, 1, 4)
             out == MethodProcessTx(c.methods[signature], tx, data, level)
         IN  [contract |->
                 [c EXCEPT !.methods[signature].expectations = out.expectations],
              out |-> out]

(* Contract::process_tx: the contract as the call leaves it, and the outcome
   of the method's process_tx. *)
ContractProcessTx(c, tx, data, level) ==
    IF Len(data) < 4
    THEN [contract |-> c,
          out |-> TxOut("Panic", <<>>, level, Err("-"), 0,
                        "transaction has invalid call data")]
    ELSE IF ~HasMethod(c, SubSeq(data, 1, 4))
    THEN [contract |-> c,
          out |-> TxOut("Panic", <<>>, level, Err("-"), 0,
                        "contract doesn't have method with signature")]
    ELSE LET signature == SubSeq(data, 1, 4)
             out == MethodProcessTx(c.methods[signature], tx, data, level)
         IN  [contract |->
                 [c EXCEPT !.methods[signature].expectations = out.expectations],
              out |-> out]

----------------------------------------------------------------------------
(* Inputs of the operations *)

Targets == 1..(MaxDeploy + 1)

Words == {0, 1}

CallData ==
    {FnBalanceOf.selector \o <<0>>, FnBalanceOf.selector \o <<1>>,
     FnDeposit.selector \o <<0>>, FnDeposit.selector \o <<1>>,
     FnDeposit.selector, <<0, 0, 0, 3, 0>>, <<0, 0>>}

PTypes == {<<"address">>, <<"uint256">>}

(* BlockNumber argument; "None" is an absent argument. *)
BlockArg(tag, n) == [tag |-> tag, n |-> n]

BlockArgs ==
    {BlockArg(t, 0) : t \in {"None", "Pending", "Latest", "Earliest"}}
        \cup {BlockArg("Number", n) : n \in 0..(MaxBlock + 1)}

(* web3 CallRequest; NoneV is an absent field, data is never absent here
   (an absent data is the empty sequence). *)
SomeCallRequest ==
    [from |-> 101, to |-> 1, gas |-> NoneV, gas_price |-> NoneV,
     value |-> NoneV, data |-> FnBalanceOf.selector \o <<1>>]

CallRequests ==
    [from : {NoneV, 101}, to : {1}, gas : {NoneV}, gas_price : {NoneV},
     value : {NoneV, 1}, data : CallData]
        \cup [from : {101}, to : {1}, gas : {NoneV, 5}, gas_price : {NoneV, 7},
              value : {NoneV}, data : {FnBalanceOf.selector \o <<1>>}]
        \cup {[SomeCallRequest EXCEPT !.to = t] : t \in Targets \cup {NoneV}}

EstimateRequests == {SomeCallRequest, [SomeCallRequest EXCEPT !.to = NoneV]}

(* A signed raw transaction, as sign::verify recovers it; valid = FALSE is
   a malformed or wrongly signed one. *)
RawTransactions ==
    [valid : {TRUE}, from : Senders, to : Targets, nonce : 0..MaxNonce,
     gas : {3}, gas_price : {4}, value : {0, 1}, data : CallData]
        \cup {[valid |-> FALSE, from |-> 101, to |-> 1, nonce |-> 0, gas |-> 3,
               gas_price |-> 4, value |-> 0, data |-> <<>>]}

(* The transaction hash, a function of the signed fields. *)
Hash(raw) ==
    <<raw.from, raw.to, raw.nonce, raw.gas, raw.gas_price, raw.value>> \o raw.data

NoHash == <<>>

(* sign::verify(raw, chain_id) *)
Verify(raw) ==
    [from |-> raw.from, to |-> raw.to, nonce |-> raw.nonce, gas |-> raw.gas,
     gas_price |-> raw.gas_price, value |-> raw.value, data |-> raw.data,
     hash |-> Hash(raw)]

(* The fluent configuration of one expectation by the test. *)
Config(times, confirmations, predicate, calls, transactions, returns, in_seq) ==
    [times |-> times, confirmations |-> confirmations, predicate |-> predicate,
     allow_calls |-> calls, allow_transactions |-> transactions,
     returns |-> returns, in_sequence |-> in_seq]

Once == [lo |-> 1, hi |-> 1]

Twice == [lo |-> 2, hi |-> 2]

ReturnsConst(token) == [ReturnsDefault EXCEPT !.kind = "Const", !.token = token]

ReturnsError(error) == [ReturnsDefault EXCEPT !.kind = "Error", !.error = error]

ReturnsFunction(f) == [ReturnsDefault EXCEPT !.kind = "Function", !.f = f]

ReturnsTxFunction(f) == [ReturnsDefault EXCEPT !.kind = "TxFunction", !.f = f]

(* .times(1).returns_const(42): the scenario of the specification *)
Once42 ==
    Config(Once, 0, PredicateNone, TRUE, TRUE,
           ReturnsConst(<<Token("uint256", 42)>>), FALSE)

(* .times(1).in_sequence(seq) and .times(2).in_sequence(seq) *)
SeqOnce == Config(Once, 0, PredicateNone, TRUE, TRUE, ReturnsDefault, TRUE)

SeqTwice == Config(Twice, 0, PredicateNone, TRUE, TRUE, ReturnsDefault, TRUE)

(* .predicate_fn(first_is_1).allow_transactions(false).returns_fn_ctx(context) *)
ViewContext ==
    Config(TimesRangeDefault, 0, [kind |-> "Function", f |-> "first_is_1"],
           TRUE, FALSE, ReturnsTxFunction("context"), FALSE)

(* .confirmations(1).allow_calls(false).returns_error("boom") *)
RevertConfirmed ==
    Config(TimesRangeDefault, 1, PredicateNone, FALSE, TRUE,
           ReturnsError("boom"), FALSE)

(* .confirmations(2).predicate_fn_ctx(from_101).returns_fn(nonzero) *)
NonzeroConfirmed ==
    Config(TimesRangeDefault, 2, [kind |-> "TxFunction", f |-> "from_101"],
           TRUE, TRUE, ReturnsFunction("nonzero"), FALSE)

(* .returns_fn_ctx(context) *)
Context ==
    Config(TimesRangeDefault, 0, PredicateNone, TRUE, TRUE,
           ReturnsTxFunction("context"), FALSE)

Configs ==
    {Once42, SeqOnce, SeqTwice, ViewContext, RevertConfirmed, NonzeroConfirmed,
     Context}

----------------------------------------------------------------------------
(* State helpers *)

(* state.nonce.get(&a).copied().unwrap_or(0) *)
NonceOf(a) == IF a \in DOMAIN nonce THEN nonce[a] ELSE 0

Insert(map, key, value) ==
    [k \in DOMAIN map \cup {key} |-> IF k = key THEN value ELSE map[k]]

AllExpectations ==
    {<<a, s, i>> \in Targets \X Selectors \X (1..MaxExpect) :
        /\ a \in DOMAIN contracts
        /\ s \in DOMAIN contracts[a].methods
        /\ i <= Len(contracts[a].methods[s].expectations)}

ExpectationAt(x) == contracts[x[1]].methods[x[2]].expectations[x[3]]

RECURSIVE SumUsed(_)
SumUsed(X) ==
    IF X = {} THEN 0
    ELSE LET x == CHOOSE y \in X : TRUE
         IN  ExpectationAt(x).used + SumUsed(X \ {x})

(* The model stops calling once the usage counts add up to MaxUsed. *)
CallsLeft == SumUsed(AllExpectations) < MaxUsed

(* What an operation hands to its caller: the request it was given, and the
   outcome "ok" (a result), "revert" (an RPC error) or "fatal" (a panic). *)
Reply(op, req, outcome, msg, ret, hash) ==
    [op |-> op, req |-> req, outcome |-> outcome, msg |-> msg, ret |-> ret,
     hash |-> hash]

NoRequest == <<>>

Returned(op, req, ret) == Reply(op, req, "ok", <<>>, ret, NoHash)

Panicked(op, req, msg) == Reply(op, req, "fatal", <<msg>>, <<>>, NoHash)

(* The client threads, each with its clone of the transport (the clones
   share one Arc<Mutex<MockTransportState>>). *)
MaxThreads == 2

Threads == 1..MaxThreads

(* The number of operations a thread invokes. *)
MaxOps == 1

NoRaw ==
    [valid |-> FALSE, from |-> 0, to |-> 0, nonce |-> 0, gas |-> 0,
     gas_price |-> 0, value |-> 0, data |-> <<>>]

(* A thread outside every handler.  `at` is its position in the handler
   `op`, `raw` the argument; `seen` is the stored nonce of the sender when
   the handler was invoked (NoneV if the mutex was poisoned then). *)
ThreadIdle ==
    [at |-> "idle", op |-> "none", raw |-> NoRaw, seen |-> 0, ok |-> FALSE,
     confirmations |-> 0, ops |-> 0, reentered |-> FALSE]

(* No TransactionBuilder has been given to build. *)
NotBuilt ==
    [at |-> "none", input |-> <<>>, node |-> <<>>, requests |-> <<>>,
     result |-> <<>>]

(* self.state.lock().unwrap() on a poisoned mutex panics, whatever the
   operation. *)
LockFails ==
    /\ poisoned
    /\ last' = Panicked("lock", NoRequest, "PoisonError")
    /\ UNCHANGED <<chain, poisoned, satisfaction_level, next_handle>>

(* Mutant: the guard is dropped without poisoning the mutex. *)
PanicUnpoisoned(op, req, msg) ==
    /\ last' = Panicked(op, req, msg)
    /\ poisoned' = poisoned

(* A panic while the lock is held poisons the mutex. *)
PanicLocked(op, req, msg) ==
    /\ last' = Panicked(op, req, msg)
    /\ poisoned' = TRUE

----------------------------------------------------------------------------
Init ==
    /\ chain_id = TheChainId
    /\ gas_price = 1
    /\ request_id = 0
    /\ block = 0
    /\ address = 0
    /\ nonce = <<>>
    /\ contracts = <<>>
    /\ receipts = <<>>
    /\ poisoned = FALSE
    /\ satisfaction_level = 0
    /\ next_handle = 0
    /\ last = Returned("new", NoRequest, <<>>)
    /\ holder = 0
    /\ locals = [t \in Threads |-> ThreadIdle]
    /\ built = NotBuilt

----------------------------------------------------------------------------
(* Test-facing operations *)

(* Mutant: the address is taken from the counter without incrementing it. *)
DeployReusing(abi) ==
    /\ address < MaxDeploy
    /\ \/ LockFails
       \/ /\ ~poisoned
          /\ address' = address
          /\ contracts' = Insert(contracts, address, ContractNew(address, abi))
          /\ last' = Returned("deploy", NoRequest, <<address>>)
          /\ UNCHANGED <<chain_id, gas_price, request_id, block, nonce, receipts,
                         poisoned, satisfaction_level, next_handle>>

(* MockTransport::deploy *)
Deploy(abi) ==
    /\ address < MaxDeploy
    /\ \/ LockFails
       \/ /\ ~poisoned
          /\ address' = address + 1
          /\ contracts' = Insert(contracts, address + 1, ContractNew(address + 1, abi))
          /\ last' = Returned("deploy", NoRequest, <<address + 1>>)
          /\ UNCHANGED <<chain_id, gas_price, request_id, block, nonce, receipts,
                         poisoned, satisfaction_level, next_handle>>

(* MockTransport::update_gas_price *)
UpdateGasPrice(price) ==
    \/ LockFails
    \/ /\ ~poisoned
       /\ gas_price' = price
       /\ last' = Returned("update_gas_price", NoRequest, <<>>)
       /\ UNCHANGED <<chain_id, request_id, block, address, nonce, contracts,
                      receipts, poisoned, satisfaction_level, next_handle>>

(* MockTransport::expect, through MockTransportState::method,
   MockTransportState::contract and Contract::method *)
Expect(addr, signature, ptype) ==
    /\ Cardinality(AllExpectations) < MaxExpect
    /\ \/ LockFails
       \/ /\ ~poisoned
          /\ IF addr \notin DOMAIN contracts
             THEN /\ PanicLocked("expect", NoRequest,
                                 "there is no mocked contract with address")
                  /\ UNCHANGED contracts
             ELSE IF ~HasMethod(contracts[addr], signature)
             THEN /\ PanicLocked("expect", NoRequest,
                                 "contract doesn't have method with signature")
                  /\ UNCHANGED contracts
             ELSE LET r == MethodExpect(contracts[addr].methods[signature], ptype)
                  IN  /\ contracts' = [contracts EXCEPT ![addr].methods[signature] = r.method]
                      /\ last' = Returned("expect", NoRequest, r.handle)
                      /\ UNCHANGED poisoned
          /\ UNCHANGED <<chain_id, gas_price, request_id, block, address, nonce,
                         receipts, satisfaction_level, next_handle>>

(* The expectation's fluent setters (times, confirmations, predicate,
   allow_calls, allow_transactions, returns, in_sequence), applied by the
   test to a fresh expectation before its first evaluation. *)
Configured(e, cfg, handle) ==
    [e EXCEPT !.times = cfg.times,
              !.confirmations = cfg.confirmations,
              !.predicate = cfg.predicate,
              !.allow_calls = cfg.allow_calls,
              !.allow_transactions = cfg.allow_transactions,
              !.returns = cfg.returns,
              !.sequence = IF cfg.in_sequence THEN handle ELSE NoSeq]

Configure(x, cfg) ==
    /\ ~poisoned
    /\ x \in AllExpectations
    /\ ExpectationAt(x) = ExpectationNew(ExpectationAt(x).ptype)
    /\ contracts' = [contracts EXCEPT
            ![x[1]].methods[x[2]].expectations[x[3]] = Configured(@, cfg, next_handle)]
    /\ next_handle' = IF cfg.in_sequence THEN next_handle + 1 ELSE next_handle
    /\ last' = Returned("configure", NoRequest, <<>>)
    /\ UNCHANGED <<chain_id, gas_price, request_id, block, address, nonce,
                   receipts, poisoned, satisfaction_level>>

(* The test ends and the transport is dropped. MockTransport has no Drop of
   its own and nothing else looks at the expectations: the run fails only
   if an operation panicked. *)
Finish ==
    /\ last' = Reply("finish", NoRequest,
                     IF poisoned \/ last.outcome = "fatal" THEN "fatal" ELSE "ok",
                     <<>>, <<>>, NoHash)
    /\ UNCHANGED <<chain, poisoned, satisfaction_level, next_handle>>

Running == last.op # "finish"

----------------------------------------------------------------------------
(* RPC operations *)

(* Transport::prepare *)
Prepare ==
    /\ request_id < MaxRequestId
    /\ \/ LockFails
       \/ /\ ~poisoned
          /\ request_id' = request_id + 1
          /\ last' = Returned("prepare", NoRequest, <<request_id>>)
          /\ UNCHANGED <<chain_id, gas_price, block, address, nonce, contracts,
                         receipts, poisoned, satisfaction_level, next_handle>>

(* An operation that reads the state and replies. *)
Reads(reply) ==
    /\ ~poisoned
    /\ last' = reply
    /\ UNCHANGED <<chain, poisoned, satisfaction_level, next_handle>>

(* An operation that panics holding the lock, having changed nothing. *)
ReadPanics(op, req, msg) ==
    /\ ~poisoned
    /\ PanicLocked(op, req, msg)
    /\ UNCHANGED <<chain, satisfaction_level, next_handle>>

(* MockTransport::block_number *)
EthBlockNumber ==
    \/ LockFails
    \/ Reads(Returned("eth_blockNumber", NoRequest, <<block>>))

(* MockTransport::chain_id *)
EthChainId ==
    \/ LockFails
    \/ Reads(Returned("eth_chainId", NoRequest, <<chain_id>>))

(* MockTransport::gas_price *)
EthGasPrice ==
    \/ LockFails
    \/ Reads(Returned("eth_gasPrice", NoRequest, <<gas_price>>))

(* The arguments of an RPC call with a block argument. *)
WithBlock(arg, blk) == [arg |-> arg, block |-> blk]

(* Mutant: block number 0 is treated as any other block number. *)
EthGetTransactionCountNoGenesis(a, blk) ==
    LET op == "eth_getTransactionCount"
        req == WithBlock(a, blk)
    IN  \/ LockFails
        \/ IF blk.tag = "Earliest" THEN Reads(Returned(op, req, <<0>>))
           ELSE IF blk.tag = "Number" /\ blk.n # block
           THEN ReadPanics(op, req,
                    "mock node does not support returning transaction count for specific block number")
           ELSE Reads(Returned(op, req, <<NonceOf(a)>>))

(* MockTransport::transaction_count *)
EthGetTransactionCount(a, blk) ==
    LET op == "eth_getTransactionCount"
        req == WithBlock(a, blk)
    IN  \/ LockFails
        \/ IF blk.tag = "Earliest" THEN Reads(Returned(op, req, <<0>>))
           ELSE IF blk.tag = "Number" /\ blk.n = 0
           THEN Reads(Returned(op, req, <<0>>))
           ELSE IF blk.tag = "Number" /\ blk.n # block
           THEN ReadPanics(op, req,
                    "mock node does not support returning transaction count for specific block number")
           ELSE Reads(Returned(op, req, <<NonceOf(a)>>))

(* Mutant: the estimate is given for any block number. *)
EthEstimateGasAnyBlock(request, blk) ==
    LET op == "eth_estimateGas"
        req == WithBlock(request, blk)
    IN  \/ LockFails
        \/ IF blk.tag = "Earliest"
           THEN ReadPanics(op, req,
                    "mock node does not support executing methods on earliest block")
           ELSE IF request.to = NoneV
           THEN ReadPanics(op, req, "call's 'to' field is empty")
           ELSE Reads(Returned(op, req, <<1>>))

(* Mutant: the estimate is given for a request without `to`. *)
EthEstimateGasNoTarget(request, blk) ==
    LET op == "eth_estimateGas"
        req == WithBlock(request, blk)
    IN  \/ LockFails
        \/ IF blk.tag = "Earliest"
           THEN ReadPanics(op, req,
                    "mock node does not support executing methods on earliest block")
           ELSE IF blk.tag = "Number" /\ blk.n # block
           THEN ReadPanics(op, req,
                    "mock node does not support executing methods on non-last block")
           ELSE Reads(Returned(op, req, <<1>>))

(* MockTransport::estimate_gas *)
EthEstimateGas(request, blk) ==
    LET op == "eth_estimateGas"
        req == WithBlock(request, blk)
    IN  \/ LockFails
        \/ IF blk.tag = "Earliest"
           THEN ReadPanics(op, req,
                    "mock node does not support executing methods on earliest block")
           ELSE IF blk.tag = "Number" /\ blk.n # block
           THEN ReadPanics(op, req,
                    "mock node does not support executing methods on non-last block")
           ELSE IF request.to = NoneV
           THEN ReadPanics(op, req, "call's 'to' field is empty")
           ELSE Reads(Returned(op, req, <<1>>))

(* Mutant: the call context carries the nonce of the sender's next transaction
   plus one. *)
CallContextOfCallBumped(request) ==
    [is_view_call |-> TRUE,
     from |-> UnwrapOr(request.from, ZeroAddress),
     to |-> request.to,
     nonce |-> NonceOf(UnwrapOr(request.from, ZeroAddress)) + 1,
     gas |-> UnwrapOr(request.gas, 1),
     gas_price |-> UnwrapOr(request.gas, gas_price),
     value |-> UnwrapOr(request.value, 0)]

(* The CallContext MockTransport::call builds. *)
CallContextOfCall(request) ==
    [is_view_call |-> TRUE,
     from |-> UnwrapOr(request.from, ZeroAddress),
     to |-> request.to,
     nonce |-> NonceOf(UnwrapOr(request.from, ZeroAddress)),
     gas |-> UnwrapOr(request.gas, 1),
     gas_price |-> UnwrapOr(request.gas, gas_price),
     value |-> UnwrapOr(request.value, 0)]

(* Mutant: an error of the expectation is raised as a panic. *)
CallReplyAborts(req, result) ==
    IF result.ok
    THEN Returned("eth_call", req, result.tokens)
    ELSE Panicked("eth_call", req, result.error)

(* The reply of MockTransport::call to a TransactionResult. *)
CallReply(req, result) ==
    IF result.ok
    THEN Returned("eth_call", req, result.tokens)
    ELSE Reply("eth_call", req, "revert",
               <<"execution reverted: ", result.error>>, <<>>, NoHash)

(* MockTransport::call, given `extra` arguments after the request and the
   block: it never calls args.done(), the surplus is not looked at. *)
EthCallArgs(request, blk, extra) ==
    LET op == "eth_call"
        req == IF extra = 0 THEN WithBlock(request, blk)
               ELSE [arg |-> request, block |-> blk, extra |-> extra]
    IN  /\ CallsLeft
        /\ \/ LockFails
           \/ IF blk.tag = "Earliest"
              THEN ReadPanics(op, req,
                       "mock node does not support executing methods on earliest block")
              ELSE IF blk.tag = "Number" /\ blk.n # block
              THEN ReadPanics(op, req,
                       "mock node does not support executing methods on non-last block")
              ELSE IF request.to = NoneV
              THEN ReadPanics(op, req, "call's 'to' field is empty")
              ELSE IF request.to \notin DOMAIN contracts
              THEN ReadPanics(op, req, "there is no mocked contract with address")
              ELSE LET r == ContractProcessTx(contracts[request.to],
                                              CallContextOfCall(request),
                                              request.data, satisfaction_level)
                   IN  /\ ~poisoned
                       /\ contracts' = [contracts EXCEPT ![request.to] = r.contract]
                       /\ satisfaction_level' = r.out.level
                       /\ IF r.out.kind = "Panic"
                          THEN PanicLocked(op, req, r.out.msg)
                          ELSE /\ UNCHANGED poisoned
                               /\ last' = CallReply(req, r.out.result)
                       /\ UNCHANGED <<chain_id, gas_price, request_id, block,
                                      address, nonce, receipts, next_handle>>

(* MockTransport::call with exactly the arguments it reads *)
EthCall(request, blk) == EthCallArgs(request, blk, 0)

(* Mutant: the request is signed for the first sender and accepted. *)
EthSendTransactionSigns ==
    /\ nonce' = Insert(nonce, 101, NonceOf(101) + 1)
    /\ last' = Returned("eth_sendTransaction", NoRequest, <<>>)
    /\ UNCHANGED <<chain_id, gas_price, request_id, block, address, contracts,
                   receipts, poisoned, satisfaction_level, next_handle>>

(* MockTransport::send_transaction: panics before taking the lock. *)
EthSendTransaction ==
    /\ last' = Panicked("eth_sendTransaction", NoRequest,
                        "mock node can't sign transactions, use offline signing with private key")
    /\ UNCHANGED <<chain, poisoned, satisfaction_level, next_handle>>

(* The CallContext MockTransport::send_raw_transaction builds. *)
CallContextOfTransaction(tx) ==
    [is_view_call |-> FALSE, from |-> tx.from, to |-> tx.to, nonce |-> tx.nonce,
     gas |-> tx.gas, gas_price |-> tx.gas_price, value |-> tx.value]

(* Mutant: a nonce ahead of the stored one is let through. *)
NonceMismatchBelowOnly(stored, tx_nonce) == stored > tx_nonce

(* if *nonce != tx.nonce.as_u64() { panic!(..) } *)
NonceMismatch(stored, tx_nonce) == stored # tx_nonce

(* Mutant: mining a transaction takes two blocks. *)
MinedBlockSkipping(current) == current + 2

(* Mutant: the receipt is built from the block counter before its increment. *)
MinedBlockStale(current) == current

(* state.block += 1, the block the transaction is mined in *)
MinedBlock(current) == current + 1

(* Mutant: the block counter is set back after the receipt is recorded. *)
ConfirmedBlockRewinding(mined, confirmations) == mined - 1

(* Mutant: the confirmations of the expectation are dropped. *)
ConfirmedBlockIgnoring(mined, confirmations) == mined

(* state.block += result.confirmations *)
ConfirmedBlock(mined, confirmations) == mined + confirmations

(* Mutant: the receipt names the contract as the sender. *)
ReceiptFromTarget(tx, block_number, ok) ==
    [transaction_hash |-> tx.hash, block_number |-> block_number,
     from |-> tx.to, to |-> tx.to, status |-> IF ok THEN 1 ELSE 0]

(* Mutant: every receipt reports success. *)
ReceiptAlwaysSuccess(tx, block_number, ok) ==
    [transaction_hash |-> tx.hash, block_number |-> block_number,
     from |-> tx.from, to |-> tx.to, status |-> 1]

(* The TransactionReceipt of a processed transaction (the fields that vary). *)
Receipt(tx, block_number, ok) ==
    [transaction_hash |-> tx.hash, block_number |-> block_number,
     from |-> tx.from, to |-> tx.to, status |-> IF ok THEN 1 ELSE 0]

(* MockTransport::send_raw_transaction *)
EthSendRawTransaction(raw) ==
    LET op == "eth_sendRawTransaction"
    IN  /\ block < MaxBlock
        /\ CallsLeft
        /\ \/ LockFails
           \/ /\ ~poisoned
              /\ ~raw.valid
              /\ PanicLocked(op, raw, "invalid transaction signature")
              /\ UNCHANGED <<chain, satisfaction_level, next_handle>>
           \/ /\ ~poisoned
              /\ raw.valid
              /\ LET tx == Verify(raw)
                     entry == Insert(nonce, tx.from, NonceOf(tx.from))
                     bumped == [entry EXCEPT ![tx.from] = @ + 1]
                 IN  IF NonceMismatch(entry[tx.from], tx.nonce)
                     THEN /\ PanicLocked(op, raw, "nonce mismatch for account")
                          /\ nonce' = entry
                          /\ UNCHANGED <<block, contracts, receipts, satisfaction_level>>
                     ELSE IF tx.to \notin DOMAIN contracts
                     THEN /\ PanicLocked(op, raw,
                                         "there is no mocked contract with address")
                          /\ nonce' = bumped
                          /\ UNCHANGED <<block, contracts, receipts, satisfaction_level>>
                     ELSE LET r == ContractProcessTx(contracts[tx.to],
                                                     CallContextOfTransaction(tx),
                                                     tx.data, satisfaction_level)
                          IN  /\ nonce' = bumped
                              /\ contracts' = [contracts EXCEPT ![tx.to] = r.contract]
                              /\ satisfaction_level' = r.out.level
                              /\ IF r.out.kind = "Panic"
                                 THEN /\ PanicLocked(op, raw, r.out.msg)
                                      /\ UNCHANGED <<block, receipts>>
                                 ELSE /\ receipts' = Insert(receipts, tx.hash,
                                              Receipt(tx, MinedBlock(block),
                                                      r.out.result.ok))
                                      /\ block' = ConfirmedBlock(MinedBlock(block),
                                                                 r.out.confirmations)
                                      /\ last' = Reply(op, raw, "ok", <<>>, <<>>, tx.hash)
                                      /\ UNCHANGED poisoned
              /\ UNCHANGED <<chain_id, gas_price, request_id, address, next_handle>>

(* What eth_getTransactionReceipt serializes of a receipt. *)
ReceiptReply(req, receipt) ==
    Reply("eth_getTransactionReceipt", req, "ok", <<>>,
          <<receipt.block_number, receipt.status, receipt.from, receipt.to>>,
          receipt.transaction_hash)

(* Mutant: an unknown hash is answered with a null receipt. *)
EthGetTransactionReceiptOrNull(transaction) ==
    \/ LockFails
    \/ IF transaction \in DOMAIN receipts
       THEN Reads(ReceiptReply(transaction, receipts[transaction]))
       ELSE Reads(Returned("eth_getTransactionReceipt", transaction, <<>>))

(* MockTransport::get_transaction_receipt *)
EthGetTransactionReceipt(transaction) ==
    \/ LockFails
    \/ IF transaction \in DOMAIN receipts
       THEN Reads(ReceiptReply(transaction, receipts[transaction]))
       ELSE ReadPanics("eth_getTransactionReceipt", transaction,
                       "there is no transaction with hash")

----------------------------------------------------------------------------
(* The handlers run by concurrent threads, one step per statement that
   reads or writes the state. *)

(* Mutant: lock() returns without waiting for the guard to be dropped. *)
MutexAvailableAlways(owner) == TRUE

(* Mutex::lock returns once no guard is alive. *)
MutexAvailable(owner) == owner = 0

(* What the caller of the handler gets. *)
ThreadReply(l, outcome, msg, ret) ==
    Reply(l.op, l.raw, outcome,
          IF outcome = "fatal" THEN <<msg>> ELSE <<>>,
          IF l.op = "eth_getTransactionCount" /\ outcome = "ok"
          THEN <<ret>> ELSE <<>>,
          IF l.op = "eth_sendRawTransaction" /\ outcome = "ok"
          THEN Hash(l.raw) ELSE NoHash)

(* The handler returns, or panics before it holds the guard. *)
ThreadLeaves(t, outcome, msg, ret) ==
    /\ locals' = [locals EXCEPT ![t] = [ThreadIdle EXCEPT !.ops = locals[t].ops + 1]]
    /\ last' = ThreadReply(locals[t], outcome, msg, ret)

(* A panic while the guard is alive: unwinding drops the guard and poisons
   the mutex. *)
ThreadPanics(t, msg) ==
    /\ ThreadLeaves(t, "fatal", msg, 0)
    /\ poisoned' = TRUE
    /\ holder' = 0

ThreadMoves(t, at) ==
    /\ locals' = [locals EXCEPT ![t].at = at]
    /\ UNCHANGED last

(* A thread calls send with a raw transaction or a transaction count
   request for raw.from. *)
Invoke(t, op, raw) ==
    /\ locals[t].at = "idle"
    /\ locals[t].ops < MaxOps
    /\ locals' = [locals EXCEPT ![t] =
                     [ThreadIdle EXCEPT !.at = "lock", !.op = op, !.raw = raw,
                                        !.seen = IF poisoned THEN NoneV
                                                 ELSE NonceOf(raw.from),
                                        !.ops = locals[t].ops]]
    /\ UNCHANGED <<chain, poisoned, satisfaction_level, next_handle, last, holder>>

(* let mut state = self.state.lock().unwrap(); *)
Lock(t) ==
    /\ locals[t].at = "lock"
    /\ MutexAvailable(holder)
    /\ IF poisoned
       THEN /\ ThreadLeaves(t, "fatal", "PoisonError", 0)
            /\ UNCHANGED holder
       ELSE /\ holder' = t
            /\ ThreadMoves(t, "locked")
    /\ UNCHANGED <<chain, poisoned, satisfaction_level, next_handle>>

(* transaction_count with the guard held: read the nonce, return. *)
CountRead(t) ==
    /\ locals[t].at = "locked"
    /\ locals[t].op = "eth_getTransactionCount"
    /\ ThreadLeaves(t, "ok", "", NonceOf(locals[t].raw.from))
    /\ holder' = 0
    /\ UNCHANGED <<chain, poisoned, satisfaction_level, next_handle>>

(* The dispatch of the call evaluates a closure that calls the transport:
   the predicate of an expectation that passes the call-mode and count
   filters, or the return closure of the expectation that matches, with no
   earlier expectation matching or panicking. *)
Reentrant(c, tx, data) ==
    /\ Len(data) >= 4
    /\ HasMethod(c, SubSeq(data, 1, 4))
    /\ LET m == c.methods[SubSeq(data, 1, 4)]
           words == SubSeq(data, 5, Len(data))
       IN  /\ ~(tx.value # 0 /\ m.function.state_mutability # "Payable")
           /\ CanDecodeInput(m.function, words)
           /\ LET params == DecodeInput(m.function, words)
                  es == m.expectations
                  Filtered(e) ==
                      \/ IF tx.is_view_call THEN ~e.allow_calls
                         ELSE ~e.allow_transactions
                      \/ ~TimesCanCall(e.times, e.used)
                  Asks(e) ==
                      /\ ~Filtered(e)
                      /\ FromTokenOk(e.ptype, params)
                      /\ e.predicate.kind # "None"
                      /\ CallsTransport(e.predicate.f)
                  Stops(e) ==
                      /\ ~Filtered(e)
                      /\ ~FromTokenOk(e.ptype, params)
                            \/ PredicateCanCall(e.predicate, tx, params)
                  Answers(e) ==
                      /\ Stops(e)
                      /\ FromTokenOk(e.ptype, params)
                      /\ e.sequence = NoSeq \/ SeqVerifyOk(e.sequence, satisfaction_level)
                      /\ e.returns.kind \in {"Function", "TxFunction"}
                      /\ CallsTransport(e.returns.f)
              IN  \E i \in 1..Len(es) :
                      /\ Asks(es[i]) \/ Answers(es[i])
                      /\ \A j \in 1..(i - 1) : ~Stops(es[j]) /\ ~Asks(es[j])

(* The request of an eth_call with the fields of raw. *)
CallRequestOf(raw) ==
    [from |-> raw.from, to |-> raw.to, gas |-> raw.gas,
     gas_price |-> raw.gas_price, value |-> raw.value, data |-> raw.data]

(* call with the guard held (no block argument): the dispatch to the
   contract, the reply, the drop of the guard. *)
CallRun(t) ==
    /\ locals[t].at = "locked"
    /\ locals[t].op = "eth_call"
    /\ LET request == CallRequestOf(locals[t].raw)
       IN  IF request.to \notin DOMAIN contracts
           THEN /\ ThreadPanics(t, "there is no mocked contract with address")
                /\ UNCHANGED <<contracts, satisfaction_level>>
           ELSE IF /\ ~locals[t].reentered
                   /\ Reentrant(contracts[request.to], CallContextOfCall(request),
                                request.data)
           THEN /\ ThreadMoves(t, "nested")
                /\ UNCHANGED <<contracts, satisfaction_level, poisoned, holder>>
           ELSE LET r == ContractProcessTx(contracts[request.to],
                                           CallContextOfCall(request),
                                           request.data, satisfaction_level)
                IN  /\ contracts' = [contracts EXCEPT ![request.to] = r.contract]
                    /\ satisfaction_level' = r.out.level
                    /\ IF r.out.kind = "Panic"
                       THEN ThreadPanics(t, r.out.msg)
                       ELSE /\ ThreadLeaves(t, IF r.out.result.ok THEN "ok" ELSE "revert",
                                            "", 0)
                            /\ holder' = 0
                            /\ UNCHANGED poisoned
    /\ UNCHANGED <<chain_id, gas_price, request_id, block, address, nonce,
                   receipts, next_handle>>

(* Where the handler goes on once the closure has its answer. *)
Resumed(l) ==
    [l EXCEPT !.at = IF l.op = "eth_call" THEN "locked" ELSE "process",
              !.reentered = TRUE]

(* Mutant: the mutex is re-entrant, the thread that holds the guard gets
   it again. *)
NestedLockReentrant(t) ==
    /\ locals[t].at = "nested"
    /\ locals' = [locals EXCEPT ![t] = Resumed(@)]
    /\ UNCHANGED <<chain, poisoned, satisfaction_level, next_handle, last, holder>>

(* self.state.lock() of the operation called by the closure.  On the thread
   that holds the guard std's Mutex::lock never returns: it blocks (no
   step) or it panics. *)
NestedLock(t) ==
    /\ locals[t].at = "nested"
    /\ IF MutexAvailable(holder)
       THEN /\ locals' = [locals EXCEPT ![t] = Resumed(@)]
            /\ UNCHANGED <<last, poisoned, holder>>
       ELSE ThreadPanics(t, "lock on the thread that holds the guard")
    /\ UNCHANGED <<chain, satisfaction_level, next_handle>>

(* send_raw_transaction: verify, the nonce entry, the check, *nonce += 1 *)
RawNonce(t) ==
    /\ locals[t].at = "locked"
    /\ locals[t].op = "eth_sendRawTransaction"
    /\ LET tx == Verify(locals[t].raw)
           entry == Insert(nonce, tx.from, NonceOf(tx.from))
       IN  IF NonceMismatch(entry[tx.from], tx.nonce)
           THEN /\ nonce' = entry
                /\ ThreadPanics(t, "nonce mismatch for account")
           ELSE /\ nonce' = [entry EXCEPT ![tx.from] = @ + 1]
                /\ ThreadMoves(t, "process")
                /\ UNCHANGED <<poisoned, holder>>
    /\ UNCHANGED <<chain_id, gas_price, request_id, block, address, contracts,
                   receipts, satisfaction_level, next_handle>>

(* send_raw_transaction: state.contract(tx.to), contract.process_tx *)
RawProcess(t) ==
    /\ locals[t].at = "process"
    /\ LET tx == Verify(locals[t].raw)
       IN  IF tx.to \notin DOMAIN contracts
           THEN /\ ThreadPanics(t, "there is no mocked contract with address")
                /\ UNCHANGED <<contracts, satisfaction_level>>
           ELSE IF /\ ~locals[t].reentered
                   /\ Reentrant(contracts[tx.to], CallContextOfTransaction(tx), tx.data)
           THEN /\ ThreadMoves(t, "nested")
                /\ UNCHANGED <<contracts, satisfaction_level, poisoned, holder>>
           ELSE LET r == ContractProcessTx(contracts[tx.to],
                                           CallContextOfTransaction(tx),
                                           tx.data, satisfaction_level)
                IN  /\ contracts' = [contracts EXCEPT ![tx.to] = r.contract]
                    /\ satisfaction_level' = r.out.level
                    /\ IF r.out.kind = "Panic"
                       THEN ThreadPanics(t, r.out.msg)
                       ELSE /\ locals' = [locals EXCEPT
                                             ![t].at = "mine",
                                             ![t].ok = r.out.result.ok,
                                             ![t].confirmations = r.out.confirmations]
                            /\ UNCHANGED <<last, poisoned, holder>>
    /\ UNCHANGED <<chain_id, gas_price, request_id, block, address, nonce,
                   receipts, next_handle>>

(* send_raw_transaction: state.block += 1 *)
RawMine(t) ==
    /\ locals[t].at = "mine"
    /\ block' = MinedBlock(block)
    /\ ThreadMoves(t, "receipt")
    /\ UNCHANGED <<chain_id, gas_price, request_id, address, nonce, contracts,
                   receipts, poisoned, satisfaction_level, next_handle, holder>>

(* send_raw_transaction: state.receipts.insert(tx.hash, receipt) *)
RawReceipt(t) ==
    /\ locals[t].at = "receipt"
    /\ receipts' = Insert(receipts, Hash(locals[t].raw),
                          Receipt(Verify(locals[t].raw), block, locals[t].ok))
    /\ ThreadMoves(t, "confirm")
    /\ UNCHANGED <<chain_id, gas_price, request_id, block, address, nonce,
                   contracts, poisoned, satisfaction_level, next_handle, holder>>

(* send_raw_transaction: state.block += result.confirmations; the hash is
   returned and the guard dropped. *)
RawConfirm(t) ==
    /\ locals[t].at = "confirm"
    /\ block' = ConfirmedBlock(block, locals[t].confirmations)
    /\ ThreadLeaves(t, "ok", "", 0)
    /\ holder' = 0
    /\ UNCHANGED <<chain_id, gas_price, request_id, address, nonce, contracts,
                   receipts, poisoned, satisfaction_level, next_handle>>

----------------------------------------------------------------------------
(* Transport::send *)

(* A jsonrpc Call as handed to send: type "MethodCall", "Notification" or
   "Invalid"; params "None", "Array" or "Map"; args are the arguments the
   handler of the method reads, extra the number of arguments after them. *)
Rpc(type, method, params, args, extra) ==
    [type |-> type, method |-> method, params |-> params, args |-> args,
     extra |-> extra]

SupportedMethods ==
    {"eth_blockNumber", "eth_chainId", "eth_getTransactionCount", "eth_gasPrice",
     "eth_estimateGas", "eth_call", "eth_sendTransaction",
     "eth_sendRawTransaction", "eth_getTransactionReceipt"}

(* What send does with a Call before any handler runs: the message of its
   panic, or "dispatch". *)
SendDecision(rpc) ==
    IF rpc.type = "Notification" THEN "rpc notifications are not supported"
    ELSE IF rpc.type # "MethodCall" THEN "unknown or invalid rpc call type"
    ELSE IF rpc.params = "Map" THEN "passing arguments by map is not supported"
    ELSE IF rpc.method \notin SupportedMethods
    THEN "mock node does not support rpc method"
    ELSE "dispatch"

(* Parser::done: no argument is left. *)
ParserDone(extra) == extra = 0

(* The handler of the method calls args.done() once it has read its
   arguments, before it takes the lock; call is the one that does not. *)
HandlerCallsDone(method) == method # "eth_call"

(* Mutant: the panic is raised with the lock held. *)
SendPanicsLocked(rpc, msg) ==
    /\ last' = Panicked("send", rpc, msg)
    /\ poisoned' = TRUE
    /\ UNCHANGED <<chain, satisfaction_level, next_handle>>

(* A panic of send or of a handler's parser: the lock is not held. *)
SendPanics(rpc, msg) ==
    /\ last' = Panicked("send", rpc, msg)
    /\ UNCHANGED <<chain, poisoned, satisfaction_level, next_handle>>

Send(rpc) ==
    IF SendDecision(rpc) # "dispatch"
    THEN SendPanics(rpc, SendDecision(rpc))
    ELSE IF HandlerCallsDone(rpc.method) /\ ~ParserDone(rpc.extra)
    THEN SendPanics(rpc, "too many arguments")
    ELSE CASE rpc.method = "eth_blockNumber" -> EthBlockNumber
           [] rpc.method = "eth_chainId" -> EthChainId
           [] rpc.method = "eth_getTransactionCount" ->
                EthGetTransactionCount(rpc.args.arg, rpc.args.block)
           [] rpc.method = "eth_gasPrice" -> EthGasPrice
           [] rpc.method = "eth_estimateGas" ->
                EthEstimateGas(rpc.args.arg, rpc.args.block)
           [] rpc.method = "eth_call" ->
                EthCallArgs(rpc.args.arg, rpc.args.block, rpc.extra)
           [] rpc.method = "eth_sendTransaction" -> EthSendTransaction
           [] rpc.method = "eth_sendRawTransaction" -> EthSendRawTransaction(rpc.args)
           [] rpc.method = "eth_getTransactionReceipt" ->
                EthGetTransactionReceipt(rpc.args)

----------------------------------------------------------------------------
(* The whole interface *)

InputsOf(signature) ==
    IF signature = FnBalanceOf.selector THEN FnBalanceOf.inputs ELSE FnDeposit.inputs

Next ==
    \/ \E abi \in Abis : Deploy(abi) /\ UNCHANGED elsewhere
    \/ \E price \in 1..MaxGasPrice : UpdateGasPrice(price) /\ UNCHANGED elsewhere
    \/ \E addr \in Targets, signature \in Selectors, ptype \in PTypes :
          Expect(addr, signature, ptype) /\ UNCHANGED elsewhere
    \/ \E x \in AllExpectations, cfg \in Configs : Configure(x, cfg) /\ UNCHANGED elsewhere
    \/ Prepare /\ UNCHANGED elsewhere
    \/ EthBlockNumber /\ UNCHANGED elsewhere
    \/ EthChainId /\ UNCHANGED elsewhere
    \/ EthGasPrice /\ UNCHANGED elsewhere
    \/ \E a \in Senders, blk \in BlockArgs : EthGetTransactionCount(a, blk) /\ UNCHANGED elsewhere
    \/ \E blk \in BlockArgs : EthEstimateGas(SomeCallRequest, blk) /\ UNCHANGED elsewhere
    \/ \E request \in EstimateRequests : EthEstimateGas(request, BlockArg("None", 0)) /\ UNCHANGED elsewhere
    \/ \E blk \in BlockArgs : EthCall(SomeCallRequest, blk) /\ UNCHANGED elsewhere
    \/ \E request \in CallRequests : EthCall(request, BlockArg("None", 0)) /\ UNCHANGED elsewhere
    \/ EthSendTransaction /\ UNCHANGED elsewhere
    \/ \E raw \in RawTransactions : EthSendRawTransaction(raw) /\ UNCHANGED elsewhere
    \/ \E transaction \in DOMAIN receipts \cup {NoHash} :
          EthGetTransactionReceipt(transaction) /\ UNCHANGED elsewhere

Spec == Init /\ [][Next]_vars

----------------------------------------------------------------------------
(* The expectation engine: one contract, expectations of every kind on its
   methods, calls and transactions of one sender. *)

EngineConfigs == {Once42, SeqTwice, ViewContext}

EngineCalls ==
    [from : {101}, to : {1}, gas : {NoneV}, gas_price : {NoneV}, value : {NoneV},
     data : {FnBalanceOf.selector \o <<1>>, FnDeposit.selector \o <<0>>,
             FnDeposit.selector \o <<1>>}]
        \cup [from : {101}, to : {1}, gas : {NoneV}, gas_price : {NoneV}, value : {1},
              data : {FnBalanceOf.selector \o <<1>>, FnDeposit.selector \o <<1>>}]

EngineTransactions ==
    [valid : {TRUE}, from : {101}, to : {1}, nonce : 0..MaxNonce,
     gas : {3}, gas_price : {4}, value : {0},
     data : {FnBalanceOf.selector \o <<1>>, FnDeposit.selector \o <<0>>,
             FnDeposit.selector \o <<1>>}]
        \cup [valid : {TRUE}, from : {101}, to : {1}, nonce : 0..MaxNonce,
              gas : {3}, gas_price : {4}, value : {1},
              data : {FnBalanceOf.selector \o <<1>>}]

NextEngine ==
    \/ \E abi \in Abis :
          address < MaxContracts /\ Deploy(abi) /\ UNCHANGED elsewhere
    \/ \E signature \in {FnBalanceOf.selector, FnDeposit.selector} :
          Expect(1, signature, InputsOf(signature)) /\ UNCHANGED elsewhere
    \/ \E x \in AllExpectations, cfg \in EngineConfigs : Configure(x, cfg) /\ UNCHANGED elsewhere
    \/ \E request \in EngineCalls : EthCall(request, BlockArg("None", 0)) /\ UNCHANGED elsewhere
    \/ \E raw \in EngineTransactions :
          raw.nonce = NonceOf(raw.from) /\ EthSendRawTransaction(raw) /\ UNCHANGED elsewhere

SpecEngine == Init /\ [][NextEngine]_vars

----------------------------------------------------------------------------
(* The chain state: transactions of two senders to one method, with
   confirmations, reverts and the call context returned. *)

ChainConfigs == {RevertConfirmed, NonzeroConfirmed, Context}

ChainCalls ==
    [from : {NoneV, 101, 102}, to : {1}, gas : {NoneV}, gas_price : {NoneV},
     value : {NoneV}, data : {FnDeposit.selector \o <<1>>}]

ChainTransactions ==
    [valid : {TRUE}, from : Senders, to : {1}, nonce : 0..MaxNonce,
     gas : {3}, gas_price : {4}, value : {0}, data : {FnDeposit.selector \o <<1>>}]
        \cup [valid : {TRUE}, from : {101}, to : {1}, nonce : 0..MaxNonce,
              gas : {3}, gas_price : {4}, value : {0},
              data : {FnDeposit.selector \o <<0>>}]
        \cup [valid : {TRUE}, from : {101}, to : {MaxContracts + 1}, nonce : {0},
              gas : {3}, gas_price : {4}, value : {0},
              data : {FnDeposit.selector \o <<1>>}]

NextChain ==
    \/ \E abi \in Abis :
          address < MaxContracts /\ Deploy(abi) /\ UNCHANGED elsewhere
    \/ Expect(1, FnDeposit.selector, FnDeposit.inputs) /\ UNCHANGED elsewhere
    \/ \E x \in AllExpectations, cfg \in ChainConfigs : Configure(x, cfg) /\ UNCHANGED elsewhere
    \/ \E request \in ChainCalls : EthCall(request, BlockArg("None", 0)) /\ UNCHANGED elsewhere
    \/ \E raw \in ChainTransactions : EthSendRawTransaction(raw) /\ UNCHANGED elsewhere
    \/ \E transaction \in DOMAIN receipts : EthGetTransactionReceipt(transaction) /\ UNCHANGED elsewhere

SpecChain == Init /\ [][NextChain]_vars

----------------------------------------------------------------------------
(* A whole test run: set up, calls to one method, and the end of the test. *)

RunConfigs == {Once42, SeqOnce}

RunCalls ==
    [from : {101}, to : {1}, gas : {NoneV}, gas_price : {NoneV},
     value : {NoneV}, data : {FnBalanceOf.selector \o <<1>>}]

NextRun ==
    \/ Running /\ \E abi \in Abis :
          address < MaxContracts /\ Deploy(abi) /\ UNCHANGED elsewhere
    \/ Running /\ Expect(1, FnBalanceOf.selector, FnBalanceOf.inputs) /\ UNCHANGED elsewhere
    \/ Running /\ \E x \in AllExpectations, cfg \in RunConfigs : Configure(x, cfg) /\ UNCHANGED elsewhere
    \/ Running /\ \E request \in RunCalls : EthCall(request, BlockArg("None", 0)) /\ UNCHANGED elsewhere
    \/ Running /\ Finish /\ UNCHANGED elsewhere

SpecRun == Init /\ [][NextRun]_vars

----------------------------------------------------------------------------
(* The RPC surface: every kind of Call handed to send, against one method
   whose expectation reverts on a zero argument. *)

RpcConfigs == {NonzeroConfirmed}

RpcBlockArgs ==
    {BlockArg(t, 0) : t \in {"None", "Pending", "Latest", "Earliest"}}
        \cup {BlockArg("Number", n) : n \in 0..2}

RpcCall(data) == [SomeCallRequest EXCEPT !.data = data]

RpcRaw(n) ==
    [valid |-> TRUE, from |-> 101, to |-> 1, nonce |-> n, gas |-> 3,
     gas_price |-> 4, value |-> 0, data |-> FnDeposit.selector \o <<0>>]

(* The arguments each method is called with. *)
RpcArgs(method) ==
    CASE method = "eth_getTransactionCount" ->
            {WithBlock(101, blk) : blk \in RpcBlockArgs}
      [] method = "eth_estimateGas" ->
            {WithBlock(RpcCall(FnDeposit.selector \o <<1>>), blk) : blk \in RpcBlockArgs}
                \cup {WithBlock([SomeCallRequest EXCEPT !.to = NoneV], BlockArg("None", 0))}
      [] method = "eth_call" ->
            {WithBlock(RpcCall(FnDeposit.selector \o <<0>>), blk) : blk \in RpcBlockArgs}
                \cup {WithBlock(RpcCall(FnDeposit.selector \o <<1>>), BlockArg("None", 0))}
      [] method = "eth_sendRawTransaction" -> {RpcRaw(n) : n \in 0..MaxNonce}
      [] method = "eth_getTransactionReceipt" -> DOMAIN receipts \cup {NoHash}
      [] OTHER -> {NoRequest}

RpcRequests ==
    {Rpc("MethodCall", m, "Array", a, 0) : <<m, a>> \in
        UNION {{<<m, a>> : a \in RpcArgs(m)} : m \in SupportedMethods}}
    \cup {Rpc("MethodCall", m, "Array", CHOOSE a \in RpcArgs(m) : TRUE, 1) :
             m \in SupportedMethods}
    \cup {Rpc("MethodCall", m, "None", NoRequest, 0) :
             m \in {"eth_blockNumber", "eth_accounts"}}
    \cup {Rpc("MethodCall", "eth_getBalance", "Array", NoRequest, 0),
          Rpc("MethodCall", "eth_call", "Map", NoRequest, 0),
          Rpc("Notification", "eth_blockNumber", "None", NoRequest, 0),
          Rpc("Invalid", "eth_blockNumber", "None", NoRequest, 0)}

NextRpc ==
    \/ \E abi \in Abis :
          address < MaxContracts /\ Deploy(abi) /\ UNCHANGED elsewhere
    \/ Expect(1, FnDeposit.selector, FnDeposit.inputs) /\ UNCHANGED elsewhere
    \/ \E x \in AllExpectations, cfg \in RpcConfigs : Configure(x, cfg) /\ UNCHANGED elsewhere
    \/ \E price \in 1..MaxGasPrice : UpdateGasPrice(price) /\ UNCHANGED elsewhere
    \/ \E rpc \in RpcRequests : Send(rpc) /\ UNCHANGED elsewhere

SpecRpc == Init /\ [][NextRpc]_vars

----------------------------------------------------------------------------
(* Concurrent clients: the test deploys and sets up its expectations, then
   its threads send raw transactions and read transaction counts through
   clones of the transport. *)

ThreadConfigs == {NonzeroConfirmed}

ThreadTransactions ==
    {RpcRaw(0), [RpcRaw(0) EXCEPT !.data = FnDeposit.selector \o <<1>>], RpcRaw(1)}

(* The argument of a transaction count request for sender a. *)
CountOf(a) == [NoRaw EXCEPT !.from = a]

(* No thread has been started. *)
Unstarted == holder = 0 /\ \A t \in Threads : locals[t] = ThreadIdle

(* The contract is deployed and its method has an expectation. *)
Ready ==
    /\ 1 \in DOMAIN contracts
    /\ contracts[1].methods[FnDeposit.selector].expectations # <<>>

NextThreads ==
    \/ Unstarted /\ contracts = <<>> /\ UNCHANGED elsewhere
          /\ \E abi \in Abis : Deploy(abi)
    \/ Unstarted /\ ~Ready /\ UNCHANGED elsewhere
          /\ Expect(1, FnDeposit.selector, FnDeposit.inputs)
    \/ Unstarted /\ UNCHANGED elsewhere
          /\ \E x \in AllExpectations, cfg \in ThreadConfigs : Configure(x, cfg)
    \/ \E t \in Threads, raw \in ThreadTransactions :
          Ready /\ Invoke(t, "eth_sendRawTransaction", raw) /\ UNCHANGED built
    \/ \E t \in Threads : Ready /\ Invoke(t, "eth_getTransactionCount", CountOf(101)) /\ UNCHANGED built
    \/ \E t \in Threads : Lock(t) /\ UNCHANGED built
    \/ \E t \in Threads : CountRead(t) /\ UNCHANGED built
    \/ \E t \in Threads : RawNonce(t) /\ UNCHANGED built
    \/ \E t \in Threads : RawProcess(t) /\ UNCHANGED built
    \/ \E t \in Threads : RawMine(t) /\ UNCHANGED built
    \/ \E t \in Threads : RawReceipt(t) /\ UNCHANGED built
    \/ \E t \in Threads : RawConfirm(t) /\ UNCHANGED built

SpecThreads == Init /\ [][NextThreads]_vars

----------------------------------------------------------------------------
(* Several contracts: deployments mixed with expectations, calls and
   transactions on the contracts deployed so far. *)

DeployCalls ==
    {[SomeCallRequest EXCEPT !.to = a, !.data = FnDeposit.selector \o <<1>>] :
        a \in 1..2}

NextDeploy ==
    \/ \E abi \in Abis : Deploy(abi) /\ UNCHANGED elsewhere
    \/ \E addr \in 1..2 :
          Expect(addr, FnDeposit.selector, FnDeposit.inputs) /\ UNCHANGED elsewhere
    \/ \E request \in DeployCalls :
          EthCall(request, BlockArg("None", 0)) /\ UNCHANGED elsewhere
    \/ \E n \in 0..MaxNonce :
          n = NonceOf(101) /\ EthSendRawTransaction(RpcRaw(n)) /\ UNCHANGED elsewhere

SpecDeploy == Init /\ [][NextDeploy]_vars

----------------------------------------------------------------------------
(* Closures that call back into the transport they are registered on. *)

(* .returns_fn(reenters) *)
ReentrantReturns ==
    Config(TimesRangeDefault, 0, PredicateNone, TRUE, TRUE,
           ReturnsFunction("reenters"), FALSE)

(* .predicate_fn(reenters) *)
ReentrantPredicate ==
    Config(TimesRangeDefault, 0, [kind |-> "Function", f |-> "reenters"],
           TRUE, TRUE, ReturnsDefault, FALSE)

ReentryConfigs == {ReentrantReturns, ReentrantPredicate}

NextReentry ==
    \/ Unstarted /\ contracts = <<>> /\ UNCHANGED elsewhere
          /\ \E abi \in Abis : Deploy(abi)
    \/ Unstarted /\ ~Ready /\ UNCHANGED elsewhere
          /\ Expect(1, FnDeposit.selector, FnDeposit.inputs)
    \/ Unstarted /\ UNCHANGED elsewhere
          /\ \E x \in AllExpectations, cfg \in ReentryConfigs : Configure(x, cfg)
    \/ \E t \in Threads, n \in 0..MaxNonce :
          Ready /\ Invoke(t, "eth_sendRawTransaction", RpcRaw(n)) /\ UNCHANGED built
    \/ \E t \in Threads : Ready /\ Invoke(t, "eth_call", RpcRaw(0)) /\ UNCHANGED built
    \/ \E t \in Threads : Ready /\ Invoke(t, "eth_getTransactionCount", CountOf(101)) /\ UNCHANGED built
    \/ \E t \in Threads : Lock(t) /\ UNCHANGED built
    \/ \E t \in Threads : CountRead(t) /\ UNCHANGED built
    \/ \E t \in Threads : CallRun(t) /\ UNCHANGED built
    \/ \E t \in Threads : RawNonce(t) /\ UNCHANGED built
    \/ \E t \in Threads : RawProcess(t) /\ UNCHANGED built
    \/ \E t \in Threads : NestedLock(t) /\ UNCHANGED built
    \/ \E t \in Threads : RawMine(t) /\ UNCHANGED built
    \/ \E t \in Threads : RawReceipt(t) /\ UNCHANGED built
    \/ \E t \in Threads : RawConfirm(t) /\ UNCHANGED built

SpecReentry == Init /\ [][NextReentry]_vars

----------------------------------------------------------------------------
(* The filters of an expectation: expectations of deposit restricted to
   views, to transactions, to one use or by a predicate, some registered
   with a parameter type that is not the method's, under calls and
   transactions. *)

FilterConfigs == {ViewContext, RevertConfirmed, Once42}

FilterData == {FnDeposit.selector \o <<0>>, FnDeposit.selector \o <<1>>}

NextFilter ==
    \/ \E abi \in Abis :
          address < MaxContracts /\ Deploy(abi) /\ UNCHANGED elsewhere
    \/ \E ptype \in PTypes :
          Expect(1, FnDeposit.selector, ptype) /\ UNCHANGED elsewhere
    \/ \E x \in AllExpectations, cfg \in FilterConfigs :
          Configure(x, cfg) /\ UNCHANGED elsewhere
    \/ \E data \in FilterData :
          EthCall(RpcCall(data), BlockArg("None", 0)) /\ UNCHANGED elsewhere
    \/ \E data \in FilterData :
          /\ EthSendRawTransaction([RpcRaw(NonceOf(101)) EXCEPT !.data = data])
          /\ UNCHANGED elsewhere

SpecFilter == Init /\ [][NextFilter]_vars

----------------------------------------------------------------------------
(* The dispatch to a contract and a method: calls and transactions to a
   deployed and to an undeployed address, with call data that is too short,
   that names no method, and that names one. *)

DispatchData ==
    {<<>>, <<0, 0>>, <<0, 0, 0, 3, 0>>, FnDeposit.selector \o <<1>>,
     FnBalanceOf.selector \o <<1>>}

NextDispatch ==
    \/ \E abi \in Abis :
          address < MaxContracts /\ Deploy(abi) /\ UNCHANGED elsewhere
    \/ \E signature \in {FnBalanceOf.selector, FnDeposit.selector} :
          Expect(1, signature, InputsOf(signature)) /\ UNCHANGED elsewhere
    \/ \E to \in 1 .. (MaxContracts + 1), data \in DispatchData :
          /\ EthCall([SomeCallRequest EXCEPT !.to = to, !.data = data],
                     BlockArg("None", 0))
          /\ UNCHANGED elsewhere
    \/ \E to \in 1 .. (MaxContracts + 1), data \in DispatchData :
          /\ EthSendRawTransaction(
                 [RpcRaw(NonceOf(101)) EXCEPT !.to = to, !.data = data])
          /\ UNCHANGED elsewhere

SpecDispatch == Init /\ [][NextDispatch]_vars

----------------------------------------------------------------------------
(* Sequences: expectations of the two methods put into the test's sequence,
   with exactly one use or with the times range left as it was created. *)

(* .in_sequence(seq), times left at the default [0, unbounded) *)
SeqAnyTimes ==
    Config(TimesRangeDefault, 0, PredicateNone, TRUE, TRUE, ReturnsDefault, TRUE)

SequenceConfigs == {SeqOnce, SeqAnyTimes}

NextSequence ==
    \/ \E abi \in Abis :
          address < MaxContracts /\ Deploy(abi) /\ UNCHANGED elsewhere
    \/ \E signature \in {FnBalanceOf.selector, FnDeposit.selector} :
          Expect(1, signature, InputsOf(signature)) /\ UNCHANGED elsewhere
    \/ \E x \in AllExpectations, cfg \in SequenceConfigs :
          Configure(x, cfg) /\ UNCHANGED elsewhere
    \/ \E data \in {FnBalanceOf.selector \o <<1>>, FnDeposit.selector \o <<1>>} :
          EthCall(RpcCall(data), BlockArg("None", 0)) /\ UNCHANGED elsewhere

SpecSequence == Init /\ [][NextSequence]_vars

----------------------------------------------------------------------------
(* The usage counts: expectations of both methods of two contracts, some
   limited to one use, under calls and transactions to either contract. *)

UsageData == {FnBalanceOf.selector \o <<1>>, FnDeposit.selector \o <<1>>}

NextUsage ==
    \/ \E abi \in Abis :
          address < 2 /\ Deploy(abi) /\ UNCHANGED elsewhere
    \/ \E place \in {<<1, FnBalanceOf.selector>>, <<1, FnDeposit.selector>>,
                      <<2, FnDeposit.selector>>} :
          /\ place[1] \in DOMAIN contracts
          /\ Expect(place[1], place[2], InputsOf(place[2]))
          /\ UNCHANGED elsewhere
    \/ \E x \in AllExpectations, cfg \in {Once42, RevertConfirmed} :
          Configure(x, cfg) /\ UNCHANGED elsewhere
    \/ \E to \in 1 .. 2, data \in UsageData :
          /\ to \in DOMAIN contracts
          /\ EthCall([SomeCallRequest EXCEPT !.to = to, !.data = data],
                     BlockArg("None", 0))
          /\ UNCHANGED elsewhere
    \/ \E to \in 1 .. 2, data \in UsageData :
          /\ to \in DOMAIN contracts
          /\ EthSendRawTransaction(
                 [RpcRaw(NonceOf(101)) EXCEPT !.to = to, !.data = data])
          /\ UNCHANGED elsewhere

SpecUsage == Init /\ [][NextUsage]_vars

----------------------------------------------------------------------------
(* The ledger: transactions of two senders, with the right nonce and with
   a wrong one, to a method with confirmations and to an address without a
   contract, between calls and receipt lookups. *)

LedgerConfigs == {RevertConfirmed, NonzeroConfirmed}

LedgerTransactions ==
    [valid : {TRUE}, from : Senders, to : {1}, nonce : 0..MaxNonce,
     gas : {3}, gas_price : {4}, value : {0},
     data : {FnDeposit.selector \o <<0>>, FnDeposit.selector \o <<1>>}]
        \cup [valid : {TRUE}, from : {101}, to : {MaxContracts + 1},
              nonce : 0..MaxNonce, gas : {3}, gas_price : {4}, value : {0},
              data : {FnDeposit.selector \o <<1>>}]

NextLedger ==
    \/ \E abi \in Abis :
          address < MaxContracts /\ Deploy(abi) /\ UNCHANGED elsewhere
    \/ Expect(1, FnDeposit.selector, FnDeposit.inputs) /\ UNCHANGED elsewhere
    \/ \E x \in AllExpectations, cfg \in LedgerConfigs :
          Configure(x, cfg) /\ UNCHANGED elsewhere
    \/ /\ EthCall(RpcCall(FnDeposit.selector \o <<1>>), BlockArg("None", 0))
       /\ UNCHANGED elsewhere
    \/ \E raw \in LedgerTransactions :
          EthSendRawTransaction(raw) /\ UNCHANGED elsewhere
    \/ \E transaction \in DOMAIN receipts :
          EthGetTransactionReceipt(transaction) /\ UNCHANGED elsewhere

SpecLedger == Init /\ [][NextLedger]_vars

----------------------------------------------------------------------------
(* The call context: calls with and without a gas limit and a gas price to a
   method whose expectation returns the context it is given, under changes
   of the chain's gas price. *)

ContextCalls ==
    [from : {NoneV, 101}, to : {1}, gas : {NoneV, 5}, gas_price : {NoneV, 7},
     value : {NoneV}, data : {FnBalanceOf.selector \o <<1>>}]

NextContext ==
    \/ \E abi \in Abis :
          address < MaxContracts /\ Deploy(abi) /\ UNCHANGED elsewhere
    \/ Expect(1, FnBalanceOf.selector, FnBalanceOf.inputs) /\ UNCHANGED elsewhere
    \/ \E x \in AllExpectations, cfg \in {Context, ViewContext} :
          Configure(x, cfg) /\ UNCHANGED elsewhere
    \/ \E price \in 1..MaxGasPrice : UpdateGasPrice(price) /\ UNCHANGED elsewhere
    \/ \E request \in ContextCalls :
          EthCall(request, BlockArg("None", 0)) /\ UNCHANGED elsewhere

SpecContext == Init /\ [][NextContext]_vars

----------------------------------------------------------------------------
(* Aborts: requests that abort before the lock is taken, requests that
   abort with the lock held and requests that are answered, between deploy,
   expect, prepare and update_gas_price. *)

AbortingCalls ==
    {WithBlock(RpcCall(FnDeposit.selector \o <<1>>), BlockArg("None", 0)),
     WithBlock(RpcCall(FnDeposit.selector \o <<1>>), BlockArg("Earliest", 0)),
     WithBlock(RpcCall(<<0, 0, 0, 3, 0>>), BlockArg("None", 0)),
     WithBlock([SomeCallRequest EXCEPT !.to = MaxContracts + 1], BlockArg("None", 0)),
     WithBlock([SomeCallRequest EXCEPT !.value = 1], BlockArg("None", 0))}

AbortRequests ==
    {Rpc("MethodCall", "eth_call", "Array", a, 0) : a \in AbortingCalls}
    \cup {Rpc("MethodCall", "eth_sendRawTransaction", "Array", RpcRaw(n), 0) :
             n \in 0..MaxNonce}
    \cup {Rpc("MethodCall", "eth_getTransactionReceipt", "Array", h, 0) :
             h \in DOMAIN receipts \cup {NoHash}}
    \cup {Rpc("MethodCall", m, "Array", NoRequest, 0) :
             m \in {"eth_blockNumber", "eth_sendTransaction", "eth_getBalance"}}
    \cup {Rpc("MethodCall", "eth_call", "Map", NoRequest, 0),
          Rpc("Notification", "eth_blockNumber", "None", NoRequest, 0)}

NextAbort ==
    \/ \E abi \in Abis :
          address < MaxContracts /\ Deploy(abi) /\ UNCHANGED elsewhere
    \/ Expect(1, FnDeposit.selector, FnDeposit.inputs) /\ UNCHANGED elsewhere
    \/ Prepare /\ UNCHANGED elsewhere
    \/ \E price \in 1..MaxGasPrice : UpdateGasPrice(price) /\ UNCHANGED elsewhere
    \/ \E rpc \in AbortRequests : Send(rpc) /\ UNCHANGED elsewhere

SpecAbort == Init /\ [][NextAbort]_vars

----------------------------------------------------------------------------
(* What the properties say about a step: the request of the reply the step
   produced, read against the state the step started in. *)

IsCall(l) == l.op = "eth_call"

IsTransaction(l) == l.op = "eth_sendRawTransaction"

RequestTo(l) == IF IsCall(l) THEN l.req.arg.to ELSE l.req.to

RequestData(l) == IF IsCall(l) THEN l.req.arg.data ELSE l.req.data

RequestValue(l) == IF IsCall(l) THEN UnwrapOr(l.req.arg.value, 0) ELSE l.req.value

RequestContext(l) ==
    IF IsCall(l) THEN CallContextOfCall(l.req.arg)
    ELSE CallContextOfTransaction(Verify(l.req))

(* The request names a method of a deployed contract. *)
ReachesMethod(l) ==
    /\ IsCall(l) \/ IsTransaction(l)
    /\ RequestTo(l) \in DOMAIN contracts
    /\ Len(RequestData(l)) >= 4
    /\ HasMethod(contracts[RequestTo(l)], SubSeq(RequestData(l), 1, 4))

MethodIn(cs, l) == cs[RequestTo(l)].methods[SubSeq(RequestData(l), 1, 4)]

(* The request passes every check made before the method is entered. *)
Accepted(l) ==
    /\ ~poisoned
    /\ ReachesMethod(l)
    /\ IsCall(l) =>
          /\ l.req.block.tag # "Earliest"
          /\ l.req.block.tag = "Number" => l.req.block.n = block
    /\ IsTransaction(l) => l.req.valid /\ NonceOf(l.req.from) = l.req.nonce

(* The request gets as far as the scan of the method's expectations. *)
Dispatched(l) ==
    /\ Accepted(l)
    /\ ~(RequestValue(l) # 0 /\ MethodIn(contracts, l).function.state_mutability # "Payable")
    /\ CanDecodeInput(MethodIn(contracts, l).function,
                      SubSeq(RequestData(l), 5, Len(RequestData(l))))

RequestParams(l) ==
    DecodeInput(MethodIn(contracts, l).function,
                SubSeq(RequestData(l), 5, Len(RequestData(l))))

(* The three filters of an expectation: call mode, usage count, predicate. *)
WouldMatch(e, tx, params) ==
    /\ IF tx.is_view_call THEN e.allow_calls ELSE e.allow_transactions
    /\ e.times.hi = Unbounded \/ e.used < e.times.hi
    /\ PredicateCanCall(e.predicate, tx, params)

Matching(l) ==
    {i \in 1..Len(MethodIn(contracts, l).expectations) :
        WouldMatch(MethodIn(contracts, l).expectations[i], RequestContext(l),
                   RequestParams(l))}

(* What the return strategy of expectation e yields for the request. *)
Yield(e, l) ==
    ReturnsProcessTx(e.returns, MethodIn(contracts, l).function,
                     RequestContext(l), RequestParams(l))

(* The reply carries what expectation e's return strategy yields. *)
RepliesWith(e, l, rs) ==
    IF IsCall(l)
    THEN IF Yield(e, l).ok
         THEN l.outcome = "ok" /\ l.ret = Encode(Yield(e, l).tokens)
         ELSE l.outcome = "revert" /\ l.msg = <<"execution reverted: ", Yield(e, l).error>>
    ELSE /\ l.outcome = "ok"
         /\ l.hash \in DOMAIN rs
         /\ rs[l.hash].status = IF Yield(e, l).ok THEN 1 ELSE 0

----------------------------------------------------------------------------
(* C1: when two or more expectations of the called method would match a
   call (call mode allowed, usage count below the upper bound, predicate
   true), the earliest registered one is consumed and its return strategy
   produces the result; no other expectation is consumed, and no later one
   is touched. *)
C1_Step ==
    Dispatched(last') /\ Cardinality(Matching(last')) >= 2 =>
        LET i == Min(Matching(last'))
            before == MethodIn(contracts, last').expectations
            after == MethodIn(contracts', last').expectations
        IN  /\ after[i].used = before[i].used + 1
            /\ \A j \in 1..Len(before) : j # i => after[j].used = before[j].used
            /\ \A j \in 1..Len(before) : j > i => after[j] = before[j]
            /\ last'.outcome # "fatal" => RepliesWith(before[i], last', receipts')

C1_EarliestMatchWins == [][C1_Step]_vars

(* Two expectations of one method that both match any call, the first with
   the constant 42: the call returned 42 and consumed the first only. *)
C1_Witness ==
    /\ IsCall(last) /\ last.outcome = "ok" /\ last.ret = <<42>>
    /\ ReachesMethod(last)
    /\ LET es == MethodIn(contracts, last).expectations
       IN  /\ Len(es) = 2
           /\ es[1].used = 1 /\ es[1].predicate = PredicateNone
           /\ es[2] = ExpectationNew(es[2].ptype)

----------------------------------------------------------------------------
(* C2: the usage count of an expectation with a finite upper bound hi never
   exceeds hi; a call that an exhausted expectation would otherwise match
   is not rejected by that expectation: it goes to the next expectation in
   insertion order that matches, and is fatal ("unexpected call") only if
   no expectation matches. *)
UsageWithinUpper ==
    \A x \in AllExpectations :
        ExpectationAt(x).times.hi # Unbounded =>
            ExpectationAt(x).used <= ExpectationAt(x).times.hi

(* Expectation e has reached its upper bound and passes the other filters. *)
Exhausted(e, tx, params) ==
    /\ e.times.hi # Unbounded /\ e.used = e.times.hi
    /\ IF tx.is_view_call THEN e.allow_calls ELSE e.allow_transactions
    /\ PredicateCanCall(e.predicate, tx, params)

C2_Step ==
    /\ UsageWithinUpper'
    /\ Dispatched(last') =>
          LET before == MethodIn(contracts, last').expectations
              after == MethodIn(contracts', last').expectations
              done == {j \in 1..Len(before) :
                          Exhausted(before[j], RequestContext(last'), RequestParams(last'))}
          IN  done # {} =>
                /\ \A j \in done : after[j].used = before[j].used
                /\ IF Matching(last') = {}
                   THEN last'.outcome = "fatal" /\ last'.msg = <<"unexpected call">>
                   ELSE /\ after[Min(Matching(last'))].used
                              = before[Min(Matching(last'))].used + 1
                        /\ last'.msg # <<"unexpected call">>
                        /\ last'.outcome # "fatal" =>
                              RepliesWith(before[Min(Matching(last'))], last', receipts')

C2_UpperBoundFallsThrough == [][C2_Step]_vars

(* One expectation with range [1, 1] and the constant 42, called twice: the
   second call found nothing to match. *)
C2_Witness ==
    /\ IsCall(last) /\ last.outcome = "fatal" /\ last.msg = <<"unexpected call">>
    /\ ReachesMethod(last)
    /\ LET es == MethodIn(contracts, last).expectations
       IN  /\ Len(es) = 1
           /\ es[1].times = Once /\ es[1].used = 1
           /\ es[1].returns = Once42.returns

(* An exhausted expectation was passed over and the next one answered. *)
C2_WitnessFallThrough ==
    /\ IsCall(last) /\ last.outcome = "ok"
    /\ ReachesMethod(last)
    /\ LET es == MethodIn(contracts, last).expectations
       IN  /\ Len(es) = 2
           /\ es[1].times = Once /\ es[1].used = 1 /\ es[1].returns = Once42.returns
           /\ es[2].used = 1
           /\ last.ret # <<42>>

----------------------------------------------------------------------------
(* Expectation a comes before expectation b in the sequence and has not yet
   been used as often as its lower bound asks. *)
PendingBefore(a, b) ==
    /\ a.sequence # NoSeq /\ b.sequence # NoSeq
    /\ a.sequence < b.sequence
    /\ a.used < TimesLowerBound(a.times)

(* C3 as stated: a call to B's method that passes B's mode, count and
   predicate filters, made while an expectation A earlier in the sequence
   is below its lower bound, aborts fatally. *)
C3_AsStated_Step ==
    ReachesMethod(last') =>
        \A j \in 1..Len(MethodIn(contracts, last').expectations) :
            LET b == MethodIn(contracts, last').expectations[j]
            IN  /\ Dispatched(last')
                /\ WouldMatch(b, RequestContext(last'), RequestParams(last'))
                /\ \E x \in AllExpectations : PendingBefore(ExpectationAt(x), b)
                => last'.outcome = "fatal"

C3_AsStated == [][C3_AsStated_Step]_vars

(* C3, amended: a call that is dispatched to B (B is the first expectation
   of its method, in insertion order, whose mode, count and predicate
   filters the call passes), made while an expectation A earlier in the
   sequence is below its lower bound, aborts fatally with a sequence
   violation and yields no result. *)
C3_Step ==
    Dispatched(last') /\ Matching(last') # {} =>
        LET b == MethodIn(contracts, last').expectations[Min(Matching(last'))]
        IN  (\E x \in AllExpectations : PendingBefore(ExpectationAt(x), b)) =>
                /\ last'.outcome = "fatal"
                /\ last'.msg = <<"method sequence violation">>
                /\ last'.ret = <<>>
                /\ receipts' = receipts

C3_SequenceOrder == [][C3_Step]_vars

(* A call reached the second member of the sequence while the first had
   not been called, and aborted. *)
C3_Witness ==
    /\ last.outcome = "fatal" /\ last.msg = <<"method sequence violation">>
    /\ \E x, y \in AllExpectations :
          /\ ExpectationAt(x).sequence # NoSeq
          /\ ExpectationAt(y).sequence # NoSeq
          /\ ExpectationAt(x).sequence < ExpectationAt(y).sequence
          /\ ExpectationAt(x).used = 0
          /\ ExpectationAt(y).used = 1

----------------------------------------------------------------------------
(* C4: a raw transaction of sender S with nonce N is accepted only when the
   stored nonce of S (0 if absent) is N, and the stored nonce is then N + 1;
   with any other N, lower or higher, the operation aborts fatally and the
   nonce of S reads as before. No other sender's nonce changes. *)
NonceIn(map, a) == IF a \in DOMAIN map THEN map[a] ELSE 0

C4_Step ==
    IsTransaction(last') /\ ~poisoned /\ last'.req.valid =>
        LET S == last'.req.from
            N == last'.req.nonce
        IN  /\ IF NonceOf(S) = N
               THEN /\ NonceIn(nonce', S) = N + 1
                    /\ last'.msg # <<"nonce mismatch for account">>
               ELSE /\ last'.outcome = "fatal"
                    /\ last'.msg = <<"nonce mismatch for account">>
                    /\ NonceIn(nonce', S) = NonceOf(S)
                    /\ UNCHANGED <<block, contracts, receipts>>
            /\ last'.outcome = "ok" => NonceOf(S) = N
            /\ \A a \in Senders \ {S} : NonceIn(nonce', a) = NonceOf(a)

C4_NonceExactMatch == [][C4_Step]_vars

(* After an accepted transaction with nonce 0, the same nonce again aborted
   and the stored nonce is still 1. *)
C4_Witness ==
    /\ IsTransaction(last) /\ last.outcome = "fatal"
    /\ last.msg = <<"nonce mismatch for account">>
    /\ last.req.nonce = 0
    /\ NonceOf(last.req.from) = 1
    /\ receipts # <<>>

(* A nonce ahead of the stored one aborted as well. *)
C4_WitnessGap ==
    /\ IsTransaction(last) /\ last.outcome = "fatal"
    /\ last.msg = <<"nonce mismatch for account">>
    /\ last.req.nonce = 1
    /\ NonceOf(last.req.from) = 0

----------------------------------------------------------------------------
(* C5: a raw transaction processed to completion advances the block counter
   by exactly 1 + c, c the confirmations of the expectation that matched
   it; eth_call never changes the block counter. *)
C5_Step ==
    /\ IsTransaction(last') /\ last'.outcome = "ok" =>
          /\ Dispatched(last') /\ Matching(last') # {}
          /\ block' = block + 1
                + MethodIn(contracts, last').expectations[Min(Matching(last'))].confirmations
    /\ IsCall(last') => block' = block

C5_BlockAdvance == [][C5_Step]_vars

(* A transaction matched by an expectation with two confirmations has moved
   the counter three blocks on, two past the block of its receipt. *)
C5_Witness ==
    /\ IsTransaction(last) /\ last.outcome = "ok"
    /\ receipts[last.hash].block_number + 2 = block
    /\ \E x \in AllExpectations :
          ExpectationAt(x).confirmations = 2 /\ ExpectationAt(x).used = 1

----------------------------------------------------------------------------
(* The receipt eth_getTransactionReceipt hands out is the stored one, and a
   stored receipt never changes. *)
ReceiptKept ==
    /\ \A h \in DOMAIN receipts : h \in DOMAIN receipts' /\ receipts'[h] = receipts[h]
    /\ last'.op = "eth_getTransactionReceipt" /\ last'.outcome = "ok" =>
          /\ last'.req \in DOMAIN receipts
          /\ last'.ret[1] = receipts[last'.req].block_number
          /\ last'.ret[2] = receipts[last'.req].status

(* The status of the receipt of a completed transaction. *)
ReceiptStatus ==
    IsTransaction(last') /\ last'.outcome = "ok" =>
        /\ Dispatched(last') /\ Matching(last') # {}
        /\ last'.hash \in DOMAIN receipts'
        /\ receipts'[last'.hash].status \in {0, 1}
        /\ receipts'[last'.hash].status = 1 <=>
              Yield(MethodIn(contracts, last').expectations[Min(Matching(last'))],
                    last').ok

(* C6 as stated: the receipt of a completed transaction has status 1 iff
   the contract call succeeded and its blockNumber is the value of the
   block counter once the transaction has been processed, also when the
   matched expectation has confirmations > 0. *)
C6_AsStated_Step ==
    /\ ReceiptKept
    /\ ReceiptStatus
    /\ IsTransaction(last') /\ last'.outcome = "ok" =>
          receipts'[last'.hash].block_number = block'

C6_AsStated == [][C6_AsStated_Step]_vars

(* C6, amended: eth_getTransactionReceipt(H) returns the receipt stored for
   H, whose status is 1 iff the contract call succeeded (0 iff it reverted)
   and whose blockNumber is the block counter right after its increment by
   one, that is, the final block counter minus the confirmations of the
   matched expectation. *)
C6_Step ==
    /\ ReceiptKept
    /\ ReceiptStatus
    /\ IsTransaction(last') /\ last'.outcome = "ok" =>
          /\ receipts'[last'.hash].block_number = block + 1
          /\ receipts'[last'.hash].block_number
                = block' - MethodIn(contracts, last').expectations[Min(Matching(last'))].confirmations

C6_ReceiptRoundTrip == [][C6_Step]_vars

(* The receipt of a reverted transaction with one confirmation was read
   back: status 0, and a block number one below the counter. *)
C6_Witness ==
    /\ last.op = "eth_getTransactionReceipt" /\ last.outcome = "ok"
    /\ last.ret[2] = 0
    /\ last.ret[1] + 1 = block
    /\ block = 2

----------------------------------------------------------------------------
(* C7: a call or transaction with value > 0 to a method that is not payable
   aborts fatally whatever expectations are registered, before any
   expectation is consulted: no usage count and no checked flag changes. *)
C7_Step ==
    /\ ~poisoned
    /\ ReachesMethod(last')
    /\ RequestValue(last') > 0
    /\ MethodIn(contracts, last').function.state_mutability # "Payable"
    => /\ last'.outcome = "fatal"
       /\ contracts' = contracts
       /\ satisfaction_level' = satisfaction_level
       /\ Accepted(last') => last'.msg = <<"call to non-payable with non-zero value">>

C7_NonPayableGuard == [][C7_Step]_vars

(* A call with value to balanceOf aborted although an expectation that
   matches every call was registered; the expectation was never looked at. *)
C7_Witness ==
    /\ IsCall(last) /\ last.outcome = "fatal"
    /\ last.msg = <<"call to non-payable with non-zero value">>
    /\ ReachesMethod(last)
    /\ LET es == MethodIn(contracts, last).expectations
       IN  Len(es) >= 1 /\ es[1] = ExpectationNew(es[1].ptype)

----------------------------------------------------------------------------
(* C8: a matched expectation without a return strategy (Returns::Default)
   yields one zero value per declared OUTPUT of the method, in order,
   whatever the method's inputs are. *)
C8_Step ==
    /\ IsCall(last') /\ last'.outcome = "ok"
    /\ Dispatched(last') /\ Matching(last') # {}
    /\ MethodIn(contracts, last').expectations[Min(Matching(last'))].returns.kind = "Default"
    => last'.ret = Encode(DefaultTuple(MethodIn(contracts, last').function.outputs))

C8_DefaultReturnsOutputs == [][C8_Step]_vars

----------------------------------------------------------------------------
(* C9: when a test run completes without a reported failure, every
   registered expectation with times range [lo, hi] has lo <= used <= hi. *)
C9_UsageWithinRangeAtEnd ==
    last.op = "finish" /\ last.outcome = "ok" =>
        \A x \in AllExpectations :
            /\ ExpectationAt(x).times.lo <= ExpectationAt(x).used
            /\ ExpectationAt(x).times.hi # Unbounded =>
                  ExpectationAt(x).used <= ExpectationAt(x).times.hi

----------------------------------------------------------------------------
(* C10: eth_call, whether it succeeds, reverts or aborts, leaves every
   nonce, the block counter, the receipts, the registry of contracts and
   their methods, the gas price and the chain id as they were; the nonce in
   the call context is the stored nonce of the sender (0 if absent). *)
C10_Step ==
    IsCall(last') =>
        /\ UNCHANGED <<nonce, block, receipts, gas_price, chain_id, address>>
        /\ DOMAIN contracts' = DOMAIN contracts
        /\ \A a \in DOMAIN contracts :
              /\ contracts'[a].address = contracts[a].address
              /\ DOMAIN contracts'[a].methods = DOMAIN contracts[a].methods
              /\ \A m \in DOMAIN contracts[a].methods :
                    /\ contracts'[a].methods[m].function = contracts[a].methods[m].function
                    /\ Len(contracts'[a].methods[m].expectations)
                          = Len(contracts[a].methods[m].expectations)
        /\ last'.outcome = "ok" /\ Len(last'.ret) = 7 =>
              last'.ret[4] = NonceOf(UnwrapOr(last'.req.arg.from, ZeroAddress))

C10_CallFrame == [][C10_Step]_vars

(* A call that returned its context after a transaction of the same sender:
   the context shows nonce 1, which is still the stored nonce. *)
C10_Witness ==
    /\ IsCall(last) /\ last.outcome = "ok" /\ Len(last.ret) = 7
    /\ last.ret[4] = 1
    /\ last.req.arg.from = 101
    /\ NonceOf(101) = 1
    /\ block >= 1

----------------------------------------------------------------------------
(* The expectation the request is dispatched to passes the sequence check
   (or is in no sequence). *)
InOrder(e) == e.sequence = NoSeq \/ SeqVerifyOk(e.sequence, satisfaction_level)

(* C11: when the expectation matched by a raw transaction returns an error,
   eth_sendRawTransaction still returns the transaction hash as a normal
   result, the sender's nonce is incremented, the block counter advances by
   1 + confirmations, and a receipt with status 0 is recorded under the
   hash; the transport is not left aborted. *)
C11_Step ==
    /\ IsTransaction(last') /\ Dispatched(last') /\ Matching(last') # {}
    /\ InOrder(MethodIn(contracts, last').expectations[Min(Matching(last'))])
    /\ ~Yield(MethodIn(contracts, last').expectations[Min(Matching(last'))], last').ok
    => LET e == MethodIn(contracts, last').expectations[Min(Matching(last'))]
       IN  /\ last'.outcome = "ok"
           /\ last'.hash = Hash(last'.req)
           /\ ~poisoned'
           /\ NonceIn(nonce', last'.req.from) = NonceOf(last'.req.from) + 1
           /\ block' = block + 1 + e.confirmations
           /\ last'.hash \in DOMAIN receipts'
           /\ receipts'[last'.hash].status = 0
           /\ receipts'[last'.hash].transaction_hash = last'.hash

C11_RevertedTransactionIsMined == [][C11_Step]_vars

(* A transaction matched by the expectation that returns the error "boom"
   with one confirmation: hash returned, receipt with status 0, nonce 1,
   block 2. *)
C11_Witness ==
    /\ IsTransaction(last) /\ last.outcome = "ok"
    /\ last.hash \in DOMAIN receipts
    /\ receipts[last.hash].status = 0
    /\ NonceOf(last.req.from) = 1
    /\ block = 2
    /\ ~poisoned

----------------------------------------------------------------------------
(* C13: if no expectation of the addressed method matches a call (also
   when the method has no expectations), the call aborts fatally and is not
   answered with a revert; no usage count changes, and for a raw transaction
   no receipt is recorded and the block counter does not advance. *)
C13_Step ==
    Dispatched(last') /\ Matching(last') = {} =>
        /\ last'.outcome = "fatal"
        /\ last'.msg = <<"unexpected call">>
        /\ poisoned'
        /\ \A j \in 1..Len(MethodIn(contracts, last').expectations) :
              MethodIn(contracts', last').expectations[j].used
                  = MethodIn(contracts, last').expectations[j].used
        /\ Len(MethodIn(contracts', last').expectations)
              = Len(MethodIn(contracts, last').expectations)
        /\ receipts' = receipts
        /\ block' = block

C13_NoMatchIsFatal == [][C13_Step]_vars

(* A raw transaction to a method whose only expectation takes calls only:
   aborted, nothing recorded. *)
C13_Witness ==
    /\ IsTransaction(last) /\ last.outcome = "fatal"
    /\ last.msg = <<"unexpected call">>
    /\ receipts = <<>> /\ block = 0
    /\ ReachesMethod(last)
    /\ LET es == MethodIn(contracts, last).expectations
       IN  Len(es) = 1 /\ ~es[1].allow_transactions /\ es[1].used = 0

(* A call to a method without expectations aborted. *)
C13_WitnessEmpty ==
    /\ IsCall(last) /\ last.outcome = "fatal"
    /\ last.msg = <<"unexpected call">>
    /\ ReachesMethod(last)
    /\ MethodIn(contracts, last).expectations = <<>>

----------------------------------------------------------------------------
(* C12: when the expectation matched by an eth_call returns the error m,
   the call is answered with the RPC error 'execution reverted: m', which
   the caller can handle: the transport is not aborted and later operations
   are served; when it returns a value, the call is answered with the
   ABI-encoded value. *)
C12_Step ==
    /\ IsCall(last') /\ Dispatched(last') /\ Matching(last') # {}
    /\ InOrder(MethodIn(contracts, last').expectations[Min(Matching(last'))])
    => LET y == Yield(MethodIn(contracts, last').expectations[Min(Matching(last'))],
                      last')
       IN  /\ ~poisoned'
           /\ IF y.ok
              THEN /\ last'.outcome = "ok"
                   /\ last'.ret = Encode(y.tokens)
                   /\ last'.msg = <<>>
              ELSE /\ last'.outcome = "revert"
                   /\ last'.msg = <<"execution reverted: ", y.error>>
                   /\ last'.ret = <<>>

C12_CallRevertIsRecoverable ==
    /\ [][C12_Step]_vars
    /\ [](last.outcome = "revert" => ~poisoned)
    /\ [][last.outcome = "revert" => last'.msg # <<"PoisonError">>]_vars

(* The call deposit(0) was answered 'execution reverted: zero'. *)
C12_Witness ==
    /\ IsCall(last) /\ last.outcome = "revert"
    /\ last.msg = <<"execution reverted: ", "zero">>
    /\ ~poisoned

(* After a reverted call (its expectation is used once) a later call
   deposit(1) was answered with the encoded value. *)
C12_WitnessValue ==
    /\ IsCall(last) /\ last.outcome = "ok"
    /\ last.ret = <<1>>
    /\ ReachesMethod(last)
    /\ \E i \in 1..Len(MethodIn(contracts, last).expectations) :
          MethodIn(contracts, last).expectations[i].used = 2

----------------------------------------------------------------------------
IsCount(l) == l.op = "eth_getTransactionCount"

(* Every counter and table of the chain and every expectation is as it
   was before the step. *)
StateKept == UNCHANGED <<chain, satisfaction_level, next_handle>>

(* C14: eth_getTransactionCount(address, block) returns 0 for earliest and
   for block number 0, the stored nonce of the address (0 if it has none)
   for an unspecified block, pending, and the number of the current block,
   and aborts fatally for any other block number; it changes no chain state
   and no expectation. *)
C14_Step ==
    IsCount(last') =>
        LET a == last'.req.arg
            blk == last'.req.block
        IN  /\ StateKept
            /\ blk.tag = "Earliest" \/ (blk.tag = "Number" /\ blk.n = 0) =>
                  last'.outcome = "ok" /\ last'.ret = <<0>>
            /\ \/ blk.tag \in {"None", "Pending"}
               \/ blk.tag = "Number" /\ blk.n = block /\ blk.n # 0
               => /\ last'.outcome = "ok"
                  /\ last'.ret = <<IF a \in DOMAIN nonce THEN nonce[a] ELSE 0>>
            /\ blk.tag = "Number" /\ blk.n # 0 /\ blk.n # block =>
                  last'.outcome = "fatal"

C14_TransactionCount == [][C14_Step]_vars

(* The count at block number 0 is 0 for an address whose stored nonce is 1,
   with the chain at a later block. *)
C14_Witness ==
    /\ IsCount(last) /\ last.outcome = "ok"
    /\ last.req.block = BlockArg("Number", 0)
    /\ last.ret = <<0>>
    /\ NonceOf(last.req.arg) = 1
    /\ block >= 1

(* The count at the number of the current block is the stored nonce. *)
C14_WitnessCurrent ==
    /\ IsCount(last) /\ last.outcome = "ok"
    /\ last.req.block = BlockArg("Number", block)
    /\ block >= 1
    /\ last.ret = <<1>>

(* The count at a past block number aborted. *)
C14_WitnessPast ==
    /\ IsCount(last) /\ last.outcome = "fatal"
    /\ last.req.block.tag = "Number"
    /\ last.req.block.n = 1 /\ block > 1

----------------------------------------------------------------------------
IsEstimate(l) == l.op = "eth_estimateGas"

(* The operations that take a block argument. *)
TakesBlock(l) == IsCount(l) \/ IsEstimate(l) \/ IsCall(l)

(* The panics raised for a block argument. *)
BlockRejections ==
    {"mock node does not support returning transaction count for specific block number",
     "mock node does not support executing methods on earliest block",
     "mock node does not support executing methods on non-last block"}

RejectedForBlock(l) == l.outcome = "fatal" /\ l.msg[1] \in BlockRejections

(* C15 as stated: an operation with a block argument aborts fatally whenever
   the argument is anything other than earliest, pending (or unspecified),
   or the number of the current block. *)
C15_AsStated_Step ==
    TakesBlock(last') =>
        LET blk == last'.req.block
        IN  ~(\/ blk.tag \in {"Earliest", "Pending", "None"}
              \/ blk.tag = "Number" /\ blk.n = block)
            => last'.outcome = "fatal"

C15_AsStated == [][C15_AsStated_Step]_vars

(* C15: an operation with a block argument (eth_getTransactionCount,
   eth_estimateGas, eth_call) aborts fatally whenever the argument is a
   block number different from the current block counter, except that
   eth_getTransactionCount answers block number 0; eth_estimateGas and
   eth_call also abort for earliest.  Pending (or unspecified) and latest
   are never rejected, nor is the number of the current block. *)
C15_Step ==
    TakesBlock(last') =>
        LET blk == last'.req.block
        IN  /\ blk.tag = "Number" /\ blk.n # block /\ ~(IsCount(last') /\ blk.n = 0)
               => RejectedForBlock(last')
            /\ blk.tag = "Earliest" /\ ~IsCount(last') => RejectedForBlock(last')
            /\ \/ blk.tag \in {"None", "Pending", "Latest"}
               \/ blk.tag = "Number" /\ blk.n = block
               => ~RejectedForBlock(last')

C15_BlockDesignators == [][C15_Step]_vars

(* An estimate asked for a past block number aborted. *)
C15_Witness ==
    /\ IsEstimate(last) /\ RejectedForBlock(last)
    /\ last.req.block.tag = "Number"
    /\ last.req.block.n = 1 /\ block > 1

(* A call at latest was answered. *)
C15_WitnessLatest ==
    /\ IsCall(last) /\ last.req.block.tag = "Latest"
    /\ last.outcome = "revert"

(* A count at block number 0 was answered with the chain at a later block. *)
C15_WitnessGenesis ==
    /\ IsCount(last) /\ last.req.block = BlockArg("Number", 0)
    /\ last.outcome = "ok" /\ block = 3

----------------------------------------------------------------------------
(* C16: eth_estimateGas aborts fatally when the request has no `to`, when
   the block is earliest, or when it is a number different from the current
   block counter; otherwise it returns the constant 1, whatever the request
   and the chain state; it changes no chain counter or table and no
   expectation. *)
C16_Step ==
    IsEstimate(last') =>
        LET request == last'.req.arg
            blk == last'.req.block
            refused == \/ request.to = NoneV
                       \/ blk.tag = "Earliest"
                       \/ blk.tag = "Number" /\ blk.n # block
        IN  /\ StateKept
            /\ refused => last'.outcome = "fatal" /\ last'.ret = <<>>
            /\ ~refused => last'.outcome = "ok" /\ last'.ret = <<1>>

C16_EstimateGas == [][C16_Step]_vars

(* An estimate answered with the constant after a transaction was mined and
   the gas price changed. *)
C16_Witness ==
    /\ IsEstimate(last) /\ last.outcome = "ok" /\ last.ret = <<1>>
    /\ block >= 1 /\ receipts # <<>>
    /\ gas_price = MaxGasPrice

(* An estimate for a request without `to` aborted. *)
C16_WitnessNoTarget ==
    /\ IsEstimate(last) /\ last.outcome = "fatal"
    /\ last.req.arg.to = NoneV
    /\ last.req.block.tag = "None"

----------------------------------------------------------------------------
IsSendTransaction(l) == l.op = "eth_sendTransaction"

(* C17: eth_sendTransaction aborts fatally whatever the request and the
   state, and leaves nonces, block counter, receipts and expectations as
   they were. *)
C17_Step ==
    IsSendTransaction(last') =>
        /\ last'.outcome = "fatal"
        /\ last'.msg # <<"PoisonError">>
        /\ StateKept
        /\ poisoned' = poisoned

C17_SendTransactionAlwaysAborts == [][C17_Step]_vars

(* An unsigned transaction was refused after a transaction was mined. *)
C17_Witness ==
    /\ IsSendTransaction(last) /\ last.outcome = "fatal"
    /\ receipts # <<>> /\ NonceOf(101) = 1 /\ block >= 1
    /\ ~poisoned

(* An unsigned transaction was refused by a transport that had aborted
   before: the refusal comes before the lock is taken. *)
C17_WitnessPoisoned ==
    /\ IsSendTransaction(last) /\ last.outcome = "fatal"
    /\ poisoned

----------------------------------------------------------------------------
IsReceiptLookup(l) == l.op = "eth_getTransactionReceipt"

(* C18: eth_getTransactionReceipt(H) aborts fatally iff no receipt is
   stored under H, and otherwise returns the receipt stored under H (never
   a null receipt); no operation removes or alters a recorded receipt, so
   every later lookup of H returns the same receipt. *)
C18_Step ==
    /\ \A h \in DOMAIN receipts :
          h \in DOMAIN receipts' /\ receipts'[h] = receipts[h]
    /\ IsReceiptLookup(last') =>
          /\ StateKept
          /\ last'.outcome = "fatal" <=> last'.req \notin DOMAIN receipts
          /\ last'.req \in DOMAIN receipts =>
                /\ last'.outcome = "ok"
                /\ last'.hash = last'.req
                /\ last' = ReceiptReply(last'.req, receipts[last'.req])

C18_ReceiptLookup == [][C18_Step]_vars

(* The receipt of the first transaction (block number 1) was returned after
   a second transaction had been mined. *)
C18_Witness ==
    /\ IsReceiptLookup(last) /\ last.outcome = "ok"
    /\ Cardinality(DOMAIN receipts) = 2
    /\ last.ret[1] = 1 /\ block = 2

(* The lookup of a hash without receipt aborted although receipts exist. *)
C18_WitnessAbsent ==
    /\ IsReceiptLookup(last) /\ last.outcome = "fatal"
    /\ last.req = NoHash
    /\ receipts # <<>>

----------------------------------------------------------------------------
(* The step is a panic of send or of a handler's parser. *)
IsSend(l) == l.op = "send"

(* send refuses the Call before it reaches a handler. *)
Refused(l) == IsSend(l) /\ SendDecision(l.req) # "dispatch"

(* C19: send aborts fatally for a method name outside the nine supported
   ones, for parameters passed as a map, and for notifications; the
   rejection happens before the state is locked, read or written: nonces,
   block counter, receipts and expectations are unchanged. *)
C19_Step ==
    IsSend(last') =>
        LET rpc == last'.req
            rejected == \/ rpc.type # "MethodCall"
                        \/ rpc.params = "Map"
                        \/ rpc.method \notin SupportedMethods
        IN  /\ rejected <=> Refused(last')
            /\ rejected =>
                  /\ last'.outcome = "fatal"
                  /\ StateKept
                  /\ poisoned' = poisoned

C19_SendRejections == [][C19_Step]_vars

(* A Call with map parameters was refused after a transaction was mined. *)
C19_Witness ==
    /\ Refused(last) /\ last.outcome = "fatal"
    /\ last.req.type = "MethodCall" /\ last.req.params = "Map"
    /\ receipts # <<>> /\ block >= 1
    /\ ~poisoned

(* A notification was refused. *)
C19_WitnessNotification ==
    /\ Refused(last) /\ last.outcome = "fatal"
    /\ last.req.type = "Notification"
    /\ last.msg = <<"rpc notifications are not supported">>

(* A Call of a method outside the nine was refused. *)
C19_WitnessMethod ==
    /\ Refused(last) /\ last.outcome = "fatal"
    /\ last.req.type = "MethodCall" /\ last.req.params = "Array"
    /\ last.req.method = "eth_getBalance"
    /\ last.msg = <<"mock node does not support rpc method">>

----------------------------------------------------------------------------
(* The number of arguments the step's request carried beyond those its
   method accepts. *)
Surplus(l) ==
    IF IsSend(l) /\ ~Refused(l) THEN l.req.extra
    ELSE IF IsCall(l) /\ "extra" \in DOMAIN l.req THEN l.req.extra
    ELSE 0

(* C20: each of the nine supported RPC methods aborts fatally when given
   more positional arguments than it accepts, before performing its effect:
   the state is as it was. *)
C20_Step ==
    Surplus(last') > 0 =>
        /\ last'.outcome = "fatal"
        /\ StateKept

C20_SurplusArgumentsAbort == [][C20_Step]_vars

----------------------------------------------------------------------------
(* The thread is between the acquisition of the guard and its drop. *)
Inside(l) == l.at \notin {"idle", "lock"}

RECURSIVE SumNonces(_, _)
SumNonces(map, S) ==
    IF S = {} THEN 0
    ELSE LET a == CHOOSE x \in S : TRUE
         IN  map[a] + SumNonces(map, S \ {a})

(* The receipts of the transactions of sender a with nonce n. *)
ReceiptsFor(a, n) == {h \in DOMAIN receipts : h[1] = a /\ h[3] = n}

(* Only the thread that holds the guard is inside a handler. *)
Exclusive == \A t \in Threads : Inside(locals[t]) => holder = t

(* The state a handler finds when it gets the guard is the outcome of the
   accepted transactions run one after the other: one receipt per nonce
   increment, and a block counter advanced by 1 + confirmations for each
   (the method has a single expectation). *)
SerialState ==
    holder = 0 /\ ~poisoned =>
        /\ SumNonces(nonce, DOMAIN nonce) = Cardinality(DOMAIN receipts)
        /\ Ready =>
              block = Cardinality(DOMAIN receipts)
                        * (1 + contracts[1].methods[FnDeposit.selector].expectations[1].confirmations)

(* At most one transaction is accepted per sender and nonce. *)
OncePerNonce ==
    \A h1, h2 \in DOMAIN receipts : h1[1] = h2[1] /\ h1[3] = h2[3] => h1 = h2

(* C21: operations invoked concurrently by several threads are serialized
   by the state mutex: only the holder of the guard is inside a handler;
   whenever the guard is free the state is that of a serial run (every
   nonce increment has its receipt and its block advance); a transaction
   count that is read equals the number of the sender's receipts; an
   accepted transaction leaves the nonce it was signed for plus one and a
   receipt numbered 1 + confirmations blocks back; of the raw transactions
   signed for the same sender and nonce at most one is accepted, and one
   invoked while that nonce was current is refused only after another has
   been accepted. *)
C21_Step ==
    \A t \in Threads :
        LET l == locals[t]
            left == locals'[t].at = "idle"
        IN  /\ l.at = "locked" /\ l.op = "eth_getTransactionCount" /\ left =>
                  last'.ret = <<Cardinality({h \in DOMAIN receipts : h[1] = l.raw.from})>>
            /\ l.at = "locked" /\ l.op = "eth_sendRawTransaction" /\ left
                  /\ l.seen = l.raw.nonce =>
                  ReceiptsFor(l.raw.from, l.raw.nonce) # {}
            /\ l.at = "confirm" /\ left =>
                  /\ last'.outcome = "ok"
                  /\ NonceIn(nonce', l.raw.from) = l.raw.nonce + 1
                  /\ receipts'[Hash(l.raw)].block_number + l.confirmations = block'

C21_Serialized ==
    /\ [](Exclusive /\ SerialState /\ OncePerNonce)
    /\ [][C21_Step]_vars

(* Two threads have invoked raw transactions of the same sender signed for
   the current nonce; one holds the guard and has its receipt recorded, the
   other waits for the guard. *)
C21_Witness ==
    \E t, u \in Threads :
        /\ locals[t].at = "lock" /\ locals[u].at = "confirm"
        /\ locals[t].op = "eth_sendRawTransaction"
        /\ locals[t].raw.from = locals[u].raw.from
        /\ locals[t].raw.nonce = locals[u].raw.nonce
        /\ locals[t].seen = locals[t].raw.nonce
        /\ locals[u].seen = locals[u].raw.nonce
        /\ holder = u

(* The second of two transactions signed for nonce 0 was refused, the
   receipt of the other one is recorded. *)
C21_WitnessRefused ==
    /\ IsTransaction(last) /\ last.outcome = "fatal"
    /\ last.msg = <<"nonce mismatch for account">>
    /\ last.req.nonce = 0
    /\ ReceiptsFor(last.req.from, 0) # {}
    /\ Hash(last.req) \notin DOMAIN receipts
    /\ poisoned /\ holder = 0

----------------------------------------------------------------------------
(* C22: once the dispatch of an eth_call or of a raw transaction evaluates
   a predicate or return closure that calls an operation of the same
   transport, the nested operation never gets the guard (the outer handler
   holds it for the whole dispatch): the thread stays blocked in the nested
   lock with the guard held, or the lock panics; the closure is never
   answered and the outer operation returns no result. *)
C22_Step ==
    \A t \in Threads :
        LET l == locals[t]
        IN  /\ l.at = "nested" =>
                  \/ locals'[t] = l /\ holder' = t
                  \/ /\ locals'[t].at = "idle"
                     /\ last'.outcome = "fatal"
                     /\ poisoned'
            /\ /\ l.at = "locked" /\ l.op = "eth_call"
               /\ l.raw.to \in DOMAIN contracts
               /\ Reentrant(contracts[l.raw.to],
                            CallContextOfCall(CallRequestOf(l.raw)), l.raw.data)
               /\ locals'[t] # l
               => locals'[t].at = "nested"
            /\ /\ l.at = "process"
               /\ l.raw.to \in DOMAIN contracts
               /\ Reentrant(contracts[l.raw.to],
                            CallContextOfTransaction(Verify(l.raw)), l.raw.data)
               /\ locals'[t] # l
               => locals'[t].at = "nested"

C22_ReentrantClosureNeverReturns ==
    /\ [][C22_Step]_vars
    /\ [](\A t \in Threads :
            /\ ~locals[t].reentered
            /\ locals[t].at = "nested" => holder = t /\ ~poisoned)

(* A thread is blocked in the lock of the operation its return closure
   called during a raw transaction; it holds the guard, and the other
   thread waits for it. *)
C22_Witness ==
    \E t, u \in Threads :
        /\ locals[t].at = "nested" /\ holder = t
        /\ locals[t].op = "eth_sendRawTransaction"
        /\ locals[u].at = "lock"
        /\ NonceOf(101) = 1 /\ receipts = <<>>

(* A thread is blocked in the lock of the operation the predicate called
   during an eth_call. *)
C22_WitnessCall ==
    \E t \in Threads :
        /\ locals[t].at = "nested" /\ holder = t
        /\ locals[t].op = "eth_call"
        /\ contracts[1].methods[FnDeposit.selector].expectations[1].predicate.f = "reenters"

----------------------------------------------------------------------------
IsDeploy(l) == l.op = "deploy"

(* C23: each deploy increments the address counter by exactly 1 and returns
   the address of the new counter value, an address no contract had, so the
   addresses returned are pairwise distinct and strictly increasing; no
   operation removes a deployed contract or replaces it by another; deploy
   changes no nonce, block counter or receipt nor any contract deployed
   before. *)
C23_Step ==
    /\ \A a \in DOMAIN contracts :
          /\ a \in DOMAIN contracts'
          /\ contracts'[a].address = contracts[a].address
          /\ DOMAIN contracts'[a].methods = DOMAIN contracts[a].methods
          /\ \A sig \in DOMAIN contracts[a].methods :
                /\ contracts'[a].methods[sig].function = contracts[a].methods[sig].function
                /\ contracts'[a].methods[sig].description
                      = contracts[a].methods[sig].description
    /\ address' >= address
    /\ address' # address \/ DOMAIN contracts' # DOMAIN contracts =>
          IsDeploy(last') /\ last'.outcome = "ok"
    /\ IsDeploy(last') /\ last'.outcome = "ok" =>
          /\ address' = address + 1
          /\ last'.ret = <<address'>>
          /\ address' \notin DOMAIN contracts
          /\ DOMAIN contracts' = DOMAIN contracts \cup {address'}
          /\ \A a \in DOMAIN contracts : contracts'[a] = contracts[a]
          /\ contracts'[address'].address = address'
          /\ \A a \in DOMAIN contracts : a < address'
          /\ UNCHANGED <<nonce, block, receipts, chain_id, gas_price, request_id>>

C23_DeployAddresses ==
    /\ [][C23_Step]_vars
    /\ [](DOMAIN contracts = 1..address)

(* The third deploy returned address 3 with the two earlier contracts in
   place, one of them with an expectation that was called. *)
C23_Witness ==
    /\ IsDeploy(last) /\ last.ret = <<3>>
    /\ DOMAIN contracts = {1, 2, 3}
    /\ contracts[1].methods[FnDeposit.selector].expectations # <<>>
    /\ contracts[1].methods[FnDeposit.selector].expectations[1].used >= 1
    /\ block >= 1

----------------------------------------------------------------------------
IsExpect(l) == l.op = "expect"

(* The methods of the deployed contracts, as <<address, signature>>. *)
MethodsOf(cs) == {<<a, sig>> : a \in DOMAIN cs, sig \in Selectors} \cap
                 UNION {{<<a, sig>> : sig \in DOMAIN cs[a].methods} : a \in DOMAIN cs}

(* C24: expect on a method returns the handle (index, generation) with
   index the number of expectations the method had and generation the
   method's generation; the new, unconfigured expectation is appended after
   the existing ones, which are not changed, and no other method is
   touched.  No operation shortens a method's expectation list without
   incrementing its generation, and a generation never decreases. *)
C24_Step ==
    /\ \A k \in MethodsOf(contracts) :
          LET m == contracts[k[1]].methods[k[2]]
              n == contracts'[k[1]].methods[k[2]]
          IN  /\ n.generation >= m.generation
              /\ Len(n.expectations) < Len(m.expectations) =>
                    n.generation > m.generation
              /\ Len(n.expectations) > Len(m.expectations) =>
                    /\ IsExpect(last') /\ last'.outcome = "ok"
                    /\ last'.ret = <<Len(m.expectations), m.generation>>
                    /\ n.generation = m.generation
                    /\ Len(n.expectations) = Len(m.expectations) + 1
                    /\ SubSeq(n.expectations, 1, Len(m.expectations)) = m.expectations
                    /\ n.expectations[Len(n.expectations)].used = 0
                    /\ ~n.expectations[Len(n.expectations)].checked
                    /\ \A o \in MethodsOf(contracts) \ {k} :
                          contracts'[o[1]].methods[o[2]] = contracts[o[1]].methods[o[2]]
    /\ IsExpect(last') /\ last'.outcome = "ok" =>
          \E k \in MethodsOf(contracts) :
              Len(contracts'[k[1]].methods[k[2]].expectations)
                  = Len(contracts[k[1]].methods[k[2]].expectations) + 1

C24_ExpectHandle == [][C24_Step]_vars

(* The second expectation of a method was registered after the first one
   had been called: handle (1, 0), the first one still first with its usage
   count. *)
C24_Witness ==
    /\ IsExpect(last) /\ last.outcome = "ok" /\ last.ret = <<1, 0>>
    /\ \E k \in MethodsOf(contracts) :
          LET es == contracts[k[1]].methods[k[2]].expectations
          IN  Len(es) = 2 /\ es[1].used >= 1 /\ es[2].used = 0

----------------------------------------------------------------------------
(* The transaction builder, ethcontract/src/transaction/build.rs: the
   parameters the caller left unset are asked of the node, then the
   transaction is a request for the node to sign or raw signed bytes. *)

MaxAmount == 1          \* gas limits, gas prices, nonces and values: 0..MaxAmount

Amounts == 0 .. MaxAmount

(* Option<T> *)
None == <<>>

Some(v) == <<v>>

OptionOf(S) == {None} \cup {Some(v) : v \in S}

UnwrapOrDefault(opt, dflt) == IF opt = None THEN dflt ELSE opt[1]

(* H160::from_str("02bcac94c537b1ca9e92d1a7f3ca6cbd25e0f67c") *)
HardCodedFrom == "0x02bcac94c537b1ca9e92d1a7f3ca6cbd25e0f67c"

BuildAddresses ==
    {HardCodedFrom, "0xffffffffffffffffffffffffffffffffffffffff",
     "0x9876543210987654321098765432109876543210"}

PrivateKeys == {"key 1", "key 2"}

(* PrivateKey::public_address *)
PublicAddress(key) ==
    IF key = "key 1" THEN "0x1111111111111111111111111111111111111111"
    ELSE "0x2222222222222222222222222222222222222222"

(* GasPrice: Standard, Scaled(factor), Value(value) *)
GasPriceStandard == [kind |-> "Standard", arg |-> 0]

GasPriceScaled(factor) == [kind |-> "Scaled", arg |-> factor]

GasPriceValue(value) == [kind |-> "Value", arg |-> value]

GasPrices ==
    {GasPriceStandard, GasPriceScaled(2)} \cup {GasPriceValue(v) : v \in Amounts}

(* GasPrice::value: Some for an explicit price only. *)
GasPriceValueOf(gp) == IF gp.kind = "Value" THEN Some(gp.arg) ELSE None

(* scale_gas_price, away from the saturation at U256::MAX. *)
ScaleGasPrice(price, factor) == price * factor

(* The answers of the node the Web3 instance talks to. *)
BuildNodes ==
    { [accounts |-> <<"0x9876543210987654321098765432109876543210",
                      "0x1111111111111111111111111111111111111111">>,
       estimate |-> 1, price |-> 1, count |-> 0, chain |-> 1],
      [accounts |-> <<>>, estimate |-> 0, price |-> 0, count |-> 1, chain |-> 2] }

NodeRequest(method, params) == [method |-> method, params |-> params]

(* What an awaited step gives: the requests it sent, in order, and its value. *)
Awaited(requests, value) == [requests |-> requests, value |-> value]

(* GasPrice::resolve: the node's price for Standard and Scaled, no request
   for an explicit value. *)
Resolve(node, gp) ==
    CASE gp.kind = "Standard" ->
            Awaited(<<NodeRequest("eth_gasPrice", <<>>)>>, node.price)
      [] gp.kind = "Scaled" ->
            Awaited(<<NodeRequest("eth_gasPrice", <<>>)>>,
                    ScaleGasPrice(node.price, gp.arg))
      [] gp.kind = "Value" -> Awaited(<<>>, gp.arg)

(* GasPrice::resolve_for_transaction_request: None without a request for
   Standard, the resolved price otherwise. *)
ResolveForTransactionRequest(node, gp) ==
    IF gp.kind = "Standard" THEN Awaited(<<>>, None)
    ELSE LET r == Resolve(node, gp) IN Awaited(r.requests, Some(r.value))

(* Mutant: the gas limit is estimated even when the caller gave one. *)
ResolveGasLimitAlways(node, from, gp, options) ==
    Awaited(<<NodeRequest("eth_estimateGas",
                [from |-> Some(from), to |-> options.to, gas |-> None,
                 gas_price |-> GasPriceValueOf(gp), value |-> options.value,
                 data |-> options.data])>>,
            node.estimate)

(* resolve_gas_limit *)
ResolveGasLimit(node, from, gp, options) ==
    IF options.gas # None THEN Awaited(<<>>, options.gas[1])
    ELSE Awaited(<<NodeRequest("eth_estimateGas",
                     [from |-> Some(from), to |-> options.to, gas |-> None,
                      gas_price |-> GasPriceValueOf(gp), value |-> options.value,
                      data |-> options.data])>>,
                 node.estimate)

(* TransactionRequestOptions::build_request *)
BuildRequest(options, condition, from, gp, gas) ==
    [from |-> from, to |-> options.to, gas |-> gas, gas_price |-> gp,
     value |-> options.value, data |-> options.data, nonce |-> options.nonce,
     condition |-> condition]

(* Transaction::Request *)
TransactionRequestOf(request) ==
    [kind |-> "Request", request |-> request, bytes |-> <<>>, hash |-> <<>>]

(* Transaction::Raw *)
TransactionRaw(bytes, hash) ==
    [kind |-> "Raw", request |-> <<>>, bytes |-> bytes, hash |-> hash]

(* build_transaction_request_for_local_signing: the sender is the address
   written in the function, whatever the caller passed; the node's accounts
   are not asked for. *)
BuildTransactionRequestForLocalSigning(node, from, gp, options, condition) ==
    LET sender == HardCodedFrom
        gas == ResolveGasLimit(node, sender, gp, options)
        price == ResolveForTransactionRequest(node, gp)
    IN  Awaited(gas.requests \o price.requests,
                BuildRequest(options, condition, sender, price.value,
                             Some(gas.value)))

(* web3.personal().sign_transaction: the node signs with the unlocked
   account. *)
PersonalSignTransaction(node, request, password) ==
    Awaited(<<NodeRequest("personal_signTransaction", <<request, password>>)>>,
            [raw |-> <<"signed by the node", request>>,
             hash |-> <<"keccak", <<"signed by the node", request>>>>])

(* build_transaction_signed_with_locked_account *)
BuildTransactionSignedWithLockedAccount(node, from, password, gp, options, condition) ==
    LET gas == ResolveGasLimit(node, from, gp, options)
        price == ResolveForTransactionRequest(node, gp)
        request == BuildRequest(options, condition, from, price.value,
                                Some(gas.value))
        signed == PersonalSignTransaction(node, request, password)
    IN  Awaited(gas.requests \o price.requests \o signed.requests, signed.value)

(* The signed encoding of a transaction: its fields in RLP order, the chain
   id of the replay protection and the signature of the key over them. *)
RawTransactionOf(key, tx_nonce, gp, gas, to, value, data, chainid) ==
    LET message == <<tx_nonce, gp, gas, to, value, data, chainid>>
    IN  message \o <<<<"signature", key, message>>>>

(* Mutant: the signed encoding keeps the nonce as the caller gave it, set or
   unset, instead of the resolved one. *)
SignTransactionUnresolved(node, params, key) ==
    LET from == PublicAddress(key)
        count == IF params.nonce # None THEN Awaited(<<>>, params.nonce[1])
                 ELSE Awaited(<<NodeRequest("eth_getTransactionCount",
                                            <<from, "latest">>)>>, node.count)
        chainid == IF params.chain_id # None THEN Awaited(<<>>, params.chain_id[1])
                 ELSE Awaited(<<NodeRequest("eth_chainId", <<>>)>>, node.chain)
        raw == RawTransactionOf(key, params.nonce, params.gas_price[1],
                                params.gas, params.to, params.value,
                                params.data, chainid.value)
    IN  Awaited(count.requests \o chainid.requests,
                [raw_transaction |-> raw, transaction_hash |-> <<"keccak", raw>>])

(* web3.accounts().sign_transaction: the nonce and the chain id are asked of
   the node when the parameters do not carry them, then the key signs. *)
SignTransaction(node, params, key) ==
    LET from == PublicAddress(key)
        count == IF params.nonce # None THEN Awaited(<<>>, params.nonce[1])
                 ELSE Awaited(<<NodeRequest("eth_getTransactionCount",
                                            <<from, "latest">>)>>, node.count)
        chainid == IF params.chain_id # None THEN Awaited(<<>>, params.chain_id[1])
                 ELSE Awaited(<<NodeRequest("eth_chainId", <<>>)>>, node.chain)
        raw == RawTransactionOf(key, Some(count.value), params.gas_price[1],
                                params.gas, params.to, params.value,
                                params.data, chainid.value)
    IN  Awaited(count.requests \o chainid.requests,
                [raw_transaction |-> raw, transaction_hash |-> <<"keccak", raw>>])

(* build_offline_signed_transaction *)
BuildOfflineSignedTransaction(node, key, chainid, gp, options) ==
    LET gas == ResolveGasLimit(node, PublicAddress(key), gp, options)
        price == Resolve(node, gp)
        signed == SignTransaction(node,
                      [nonce |-> options.nonce, gas_price |-> Some(price.value),
                       gas |-> gas.value, to |-> options.to,
                       value |-> UnwrapOrDefault(options.value, 0),
                       data |-> UnwrapOrDefault(options.data, <<>>),
                       chain_id |-> chainid],
                      key)
    IN  Awaited(gas.requests \o price.requests \o signed.requests, signed.value)

(* Account: Local(from, condition), Locked(from, password, condition),
   Offline(key, chain_id) *)
AccountLocal(from) ==
    [kind |-> "Local", from |-> from, password |-> "", key |-> "",
     chain_id |-> None, condition |-> None]

AccountLocked(from, password) ==
    [kind |-> "Locked", from |-> from, password |-> password, key |-> "",
     chain_id |-> None, condition |-> None]

AccountOffline(key, chainid) ==
    [kind |-> "Offline", from |-> "", password |-> "", key |-> key,
     chain_id |-> chainid, condition |-> None]

BuildAccounts ==
    {AccountLocal(a) : a \in BuildAddresses}
        \cup {AccountLocked(a, "foobar") : a \in BuildAddresses}
        \cup {AccountOffline(k, c) : k \in PrivateKeys, c \in OptionOf({1, 2})}

(* The fields of the TransactionBuilder that build reads. *)
TransactionBuilders ==
    [from : OptionOf(BuildAccounts),
     gas_price : OptionOf(GasPrices),
     to : OptionOf({"0x0000000000000000000000000000000000000000"}),
     gas : OptionOf(Amounts),
     value : OptionOf(Amounts),
     data : OptionOf({<<>>, <<1>>}),
     nonce : OptionOf(Amounts)]

(* TransactionOptions of a builder *)
OptionsOf(b) ==
    [to |-> b.to, gas |-> b.gas, value |-> b.value, data |-> b.data,
     nonce |-> b.nonce]

Building(b, node) ==
    [at |-> "build", input |-> b, node |-> node, requests |-> <<>>,
     result |-> <<>>]

BuildDone(awaited, result) ==
    /\ built' = [built EXCEPT !.at = "done", !.requests = awaited.requests,
                              !.result = result]
    /\ UNCHANGED <<chain, poisoned, satisfaction_level, next_handle, last,
                   holder, locals>>

(* TransactionBuilder::build, self.from = None *)
BuildDefaultAccount ==
    /\ built.at = "build"
    /\ built.input.from = None
    /\ LET b == built.input
           r == BuildTransactionRequestForLocalSigning(built.node, None,
                    UnwrapOrDefault(b.gas_price, GasPriceStandard),
                    OptionsOf(b), None)
       IN  BuildDone(r, TransactionRequestOf(r.value))

(* TransactionBuilder::build, Some(Account::Local(from, condition)) *)
BuildLocal ==
    /\ built.at = "build"
    /\ built.input.from # None
    /\ built.input.from[1].kind = "Local"
    /\ LET b == built.input
           account == b.from[1]
           r == BuildTransactionRequestForLocalSigning(built.node,
                    Some(account.from),
                    UnwrapOrDefault(b.gas_price, GasPriceStandard),
                    OptionsOf(b), account.condition)
       IN  BuildDone(r, TransactionRequestOf(r.value))

(* TransactionBuilder::build, Some(Account::Locked(from, password, condition)) *)
BuildLocked ==
    /\ built.at = "build"
    /\ built.input.from # None
    /\ built.input.from[1].kind = "Locked"
    /\ LET b == built.input
           account == b.from[1]
           r == BuildTransactionSignedWithLockedAccount(built.node,
                    account.from, account.password,
                    UnwrapOrDefault(b.gas_price, GasPriceStandard),
                    OptionsOf(b), account.condition)
       IN  BuildDone(r, TransactionRaw(r.value.raw, r.value.hash))

(* TransactionBuilder::build, Some(Account::Offline(key, chain_id)) *)
BuildOffline ==
    /\ built.at = "build"
    /\ built.input.from # None
    /\ built.input.from[1].kind = "Offline"
    /\ LET b == built.input
           account == b.from[1]
           r == BuildOfflineSignedTransaction(built.node, account.key,
                    account.chain_id,
                    UnwrapOrDefault(b.gas_price, GasPriceStandard),
                    OptionsOf(b))
       IN  BuildDone(r, TransactionRaw(r.value.raw_transaction,
                                       r.value.transaction_hash))

(* A builder with any choice of set and unset parameters, against a node
   with accounts or without. *)
InitBuild ==
    /\ chain_id = TheChainId
    /\ gas_price = 1
    /\ request_id = 0
    /\ block = 0
    /\ address = 0
    /\ nonce = <<>>
    /\ contracts = <<>>
    /\ receipts = <<>>
    /\ poisoned = FALSE
    /\ satisfaction_level = 0
    /\ next_handle = 0
    /\ last = Returned("new", NoRequest, <<>>)
    /\ holder = 0
    /\ locals = [t \in Threads |-> ThreadIdle]
    /\ built \in {Building(b, n) : b \in TransactionBuilders, n \in BuildNodes}

NextBuild ==
    \/ BuildDefaultAccount
    \/ BuildLocal
    \/ BuildLocked
    \/ BuildOffline

SpecBuild == InitBuild /\ [][NextBuild]_vars

----------------------------------------------------------------------------
(* Claims about the transaction builder *)

BuiltLocal ==
    /\ built.at = "done"
    /\ built.input.from # None
    /\ built.input.from[1].kind = "Local"

BuiltDefaultAccount == built.at = "done" /\ built.input.from = None

PriceOf(b) == UnwrapOrDefault(b.gas_price, GasPriceStandard)

Methods(requests) == [i \in 1 .. Len(requests) |-> requests[i].method]

(* C25: build_transaction_request_for_local_signing called with an explicit
   sender Some(a) gives a request whose from is a, for every a, and does not
   ask the node for its accounts; with the gas unset and the standard gas
   price, eth_estimateGas with from = a is the only request to the node. *)
C25_ExplicitSenderKept ==
    BuiltLocal =>
        LET a == built.input.from[1].from
        IN  /\ built.result.kind = "Request"
            /\ built.result.request.from = a
            /\ \A i \in 1 .. Len(built.requests) :
                  built.requests[i].method # "eth_accounts"
            /\ built.input.gas = None /\ PriceOf(built.input).kind = "Standard" =>
                  /\ Methods(built.requests) = <<"eth_estimateGas">>
                  /\ built.requests[1].params.from = Some(a)

(* C26: build_transaction_request_for_local_signing called with no sender
   asks eth_accounts first and takes the first account as from; on an empty
   list it fails with NoLocalAccounts and sends nothing more. *)
C26_DefaultAccountLookup ==
    BuiltDefaultAccount =>
        /\ Len(built.requests) >= 1
        /\ built.requests[1].method = "eth_accounts"
        /\ IF built.node.accounts = <<>>
           THEN /\ built.result.kind = "NoLocalAccounts"
                /\ Len(built.requests) = 1
           ELSE /\ built.result.kind = "Request"
                /\ built.result.request.from = built.node.accounts[1]

AccountKind(b) == IF b.from = None THEN "Default" ELSE b.from[1].kind

Asked(method) ==
    \E i \in 1 .. Len(built.requests) : built.requests[i].method = method

(* The place of a request in the order of the builder. *)
Rank(method) ==
    CASE method = "eth_accounts" -> 0
      [] method = "eth_estimateGas" -> 1
      [] method = "eth_gasPrice" -> 2
      [] OTHER -> 3

(* C27: the builder asks the node only for the parameters the caller left
   unset, each at most once and in a fixed order: eth_estimateGas (gas unset)
   before eth_gasPrice (price not an explicit value, and not the standard
   price of a request the node signs) before the signing, nonce and chain id
   requests; an offline build with gas, an explicit price, nonce and chain id
   all given sends nothing to the node. *)
C27_QueriesOnlyUnset ==
    built.at = "done" =>
        LET b == built.input
            ms == Methods(built.requests)
            offline == AccountKind(b) = "Offline"
        IN  /\ \A i, j \in 1 .. Len(ms) :
                  i < j => ms[i] # ms[j] /\ Rank(ms[i]) <= Rank(ms[j])
            /\ Asked("eth_estimateGas") <=> b.gas = None
            /\ Asked("eth_gasPrice") <=>
                  /\ PriceOf(b).kind # "Value"
                  /\ PriceOf(b).kind = "Standard" => offline
            /\ Asked("eth_getTransactionCount") <=> offline /\ b.nonce = None
            /\ Asked("eth_chainId") <=> offline /\ b.from[1].chain_id = None
            /\ Asked("personal_signTransaction") <=> AccountKind(b) = "Locked"
            /\ offline /\ b.gas # None /\ PriceOf(b).kind = "Value"
                  /\ b.nonce # None /\ b.from[1].chain_id # None =>
                      built.requests = <<>>

(* An offline build with nothing given asked for the gas limit, the gas
   price, the nonce and the chain id, in this order. *)
C27_Witness ==
    /\ built.at = "done"
    /\ AccountKind(built.input) = "Offline"
    /\ Methods(built.requests) =
          <<"eth_estimateGas", "eth_gasPrice", "eth_getTransactionCount",
            "eth_chainId">>

(* An offline build with everything given signed without a request. *)
C27_WitnessSilent ==
    /\ built.at = "done"
    /\ AccountKind(built.input) = "Offline"
    /\ built.input.gas # None /\ built.input.nonce # None
    /\ PriceOf(built.input).kind = "Value"
    /\ built.input.from[1].chain_id # None
    /\ built.requests = <<>>
    /\ built.result.kind = "Raw"

(* A locked-account build with a scaled price: estimate, price, signing. *)
C27_WitnessLocked ==
    /\ built.at = "done"
    /\ Methods(built.requests) =
          <<"eth_estimateGas", "eth_gasPrice", "personal_signTransaction">>

BuiltOffline == built.at = "done" /\ AccountKind(built.input) = "Offline"

(* The parameters an offline build signs, each from the caller when given
   and from the node (or the default) otherwise. *)
ResolvedOf(node, b) ==
    [key |-> b.from[1].key,
     to |-> b.to,
     gas |-> UnwrapOrDefault(b.gas, node.estimate),
     gas_price |-> Resolve(node, PriceOf(b)).value,
     nonce |-> UnwrapOrDefault(b.nonce, node.count),
     chain_id |-> UnwrapOrDefault(b.from[1].chain_id, node.chain),
     value |-> UnwrapOrDefault(b.value, 0),
     data |-> UnwrapOrDefault(b.data, <<>>)]

(* The transaction build gives for an offline account. *)
SignedOffline(node, b) ==
    LET r == BuildOfflineSignedTransaction(node, b.from[1].key,
                 b.from[1].chain_id, PriceOf(b), OptionsOf(b))
    IN  TransactionRaw(r.value.raw_transaction, r.value.transaction_hash)

(* The builders that can resolve to r: every parameter either unset or set
   to its value in r, with any gas price setting. *)
BuildersTowards(r) ==
    [from : {Some(AccountOffline(r.key, c)) : c \in {None, Some(r.chain_id)}},
     gas_price : OptionOf(GasPrices),
     to : {r.to},
     gas : {None, Some(r.gas)},
     value : {None, Some(r.value)},
     data : {None, Some(r.data)},
     nonce : {None, Some(r.nonce)}]

(* C28: offline signing is a function of the resolved parameters: any other
   build with the same key whose resolved to, gas, gas price, nonce, chain
   id, value and data are the same gives the same bytes and the same hash,
   whichever of them came from the caller and whichever from the node. *)
C28_OfflineSigningDeterministic ==
    BuiltOffline =>
        LET r == ResolvedOf(built.node, built.input)
        IN  \A n \in BuildNodes : \A b \in BuildersTowards(r) :
                ResolvedOf(n, b) = r =>
                    /\ SignedOffline(n, b).bytes = built.result.bytes
                    /\ SignedOffline(n, b).hash = built.result.hash

(* A build that took gas, price, nonce and chain id from the node, while a
   build given all four by its caller resolves to the same parameters. *)
C28_Witness ==
    /\ BuiltOffline
    /\ Len(built.requests) = 4
    /\ \E b \in BuildersTowards(ResolvedOf(built.node, built.input)) :
          /\ b.gas # None /\ b.nonce # None /\ b.from[1].chain_id # None
          /\ PriceOf(b).kind = "Value"
          /\ ResolvedOf(built.node, b) = ResolvedOf(built.node, built.input)
          /\ SignedOffline(built.node, b) = built.result

----------------------------------------------------------------------------
(* C29: an expectation matches a call iff its three filters pass, in this
   order: the call mode is allowed (allow_calls for a view call,
   allow_transactions for a transaction), the usage count is below the upper
   bound, the predicate holds. The parameters are decoded for the predicate,
   and the predicate asked, only for an expectation that passed the first
   two; an evaluation that does not match leaves the usage count as it
   was. *)
ModeAllowed(e, tx) == IF tx.is_view_call THEN e.allow_calls ELSE e.allow_transactions

(* The scan of the expectations ends at e: it matches, or it cannot decode
   the parameters for its predicate. *)
ScanStopsAt(e, tx, params) ==
    /\ ModeAllowed(e, tx)
    /\ TimesCanCall(e.times, e.used)
    /\ ~FromTokenOk(e.ptype, params) \/ PredicateCanCall(e.predicate, tx, params)

C29_Step ==
    Dispatched(last') =>
        LET es == MethodIn(contracts, last').expectations
            after == MethodIn(contracts', last').expectations
            tx == RequestContext(last')
            params == RequestParams(last')
            Reached(i) == \A j \in 1 .. (i - 1) : ~ScanStopsAt(es[j], tx, params)
        IN  /\ Len(after) = Len(es)
            /\ \A i \in 1 .. Len(es) :
                  /\ after[i].used \in {es[i].used, es[i].used + 1}
                  /\ after[i].used = es[i].used + 1 <=>
                        /\ Reached(i)
                        /\ FromTokenOk(es[i].ptype, params)
                        /\ WouldMatch(es[i], tx, params)
                  /\ ~WouldMatch(es[i], tx, params) => after[i].used = es[i].used
            /\ last'.outcome = "fatal" /\ last'.msg = <<"unable to decode input">> =>
                  \E i \in 1 .. Len(es) :
                      /\ Reached(i)
                      /\ ModeAllowed(es[i], tx)
                      /\ TimesCanCall(es[i].times, es[i].used)
                      /\ ~FromTokenOk(es[i].ptype, params)
            /\ (\A i \in 1 .. Len(es) : ~ScanStopsAt(es[i], tx, params)) =>
                  last'.outcome = "fatal" /\ last'.msg = <<"unexpected call">>

C29_ThreeFilters == [][C29_Step]_vars

(* A view call went past an expectation for transactions only whose
   parameter type does not decode, untouched, and matched the next one. *)
C29_Witness ==
    /\ IsCall(last) /\ last.outcome = "ok"
    /\ ReachesMethod(last)
    /\ LET es == MethodIn(contracts, last).expectations
       IN  /\ Len(es) = 2
           /\ ~es[1].allow_calls /\ es[1].ptype # FnDeposit.inputs
           /\ es[1].used = 0 /\ es[1].checked
           /\ es[2].used = 1

(* A transaction passed the mode and count filters of an expectation whose
   parameter type does not decode: the decoding for the predicate aborted. *)
C29_WitnessDecode ==
    /\ IsTransaction(last) /\ last.outcome = "fatal"
    /\ last.msg = <<"unable to decode input">>

(* The predicate of the only expectation refused the call: no match, the
   usage count stayed 0. *)
C29_WitnessPredicate ==
    /\ IsCall(last) /\ last.outcome = "fatal" /\ last.msg = <<"unexpected call">>
    /\ ReachesMethod(last)
    /\ LET es == MethodIn(contracts, last).expectations
       IN  /\ Len(es) = 1
           /\ es[1].predicate.kind = "Function" /\ es[1].allow_calls
           /\ es[1].used = 0 /\ es[1].checked

----------------------------------------------------------------------------
(* The expectation is as Expectation::new made it, but for the calls it has
   seen and matched. *)
Unconfigured(e) ==
    e = [ExpectationNew(e.ptype) EXCEPT !.used = e.used, !.checked = e.checked]

(* C30: an expectation nobody configured matches every call that reaches it,
   view call or transaction, whatever the parameters; it is never used up
   (it is active after every match) and it adds no confirmation block. *)
C30_Step ==
    Dispatched(last') =>
        LET es == MethodIn(contracts, last').expectations
            after == MethodIn(contracts', last').expectations
            tx == RequestContext(last')
            params == RequestParams(last')
        IN  \A i \in 1 .. Len(es) :
                /\ Unconfigured(es[i])
                /\ \A j \in 1 .. (i - 1) : ~ScanStopsAt(es[j], tx, params)
                => /\ last'.outcome = "ok"
                   /\ after[i].used = es[i].used + 1
                   /\ Unconfigured(after[i])
                   /\ ExpIsActive(after[i])
                   /\ IsTransaction(last') => block' = block + 1

C30_UnconfiguredMatchesAll ==
    /\ [][C30_Step]_vars
    /\ [](\A x \in AllExpectations :
            Unconfigured(ExpectationAt(x)) => ExpIsActive(ExpectationAt(x)))

(* An unconfigured expectation has matched view calls and transactions,
   three in all, the last one a transaction mined without confirmation
   blocks, and is still active. *)
C30_Witness ==
    /\ IsTransaction(last) /\ last.outcome = "ok"
    /\ ReachesMethod(last)
    /\ LET es == MethodIn(contracts, last).expectations
       IN  /\ Len(es) = 1
           /\ Unconfigured(es[1])
           /\ es[1].used = 3
           /\ block \in 1 .. 2
           /\ ExpIsActive(es[1])

----------------------------------------------------------------------------
(* The expectation at x in the contracts cs. *)
ExpectationIn(cs, x) == cs[x[1]].methods[x[2]].expectations[x[3]]

(* The place of expectation i of the method the request names. *)
PlaceOf(l, i) == <<RequestTo(l), SubSeq(RequestData(l), 1, 4), i>>

(* C31: checked is false when the expectation is created, becomes true the
   first time the expectation is evaluated against a call, matching or not,
   and is never false again; an expectation no call has got to (an earlier
   one took every call) is still unchecked. *)
C31_Step ==
    /\ \A x \in AllExpectations :
          /\ ExpectationAt(x).checked => ExpectationIn(contracts', x).checked
          /\ ExpectationIn(contracts', x).checked /\ ~ExpectationAt(x).checked =>
                /\ Dispatched(last')
                /\ x[1] = RequestTo(last')
                /\ x[2] = SubSeq(RequestData(last'), 1, 4)
    /\ \A x \in AllExpectations' :
          x \notin AllExpectations => ~ExpectationIn(contracts', x).checked
    /\ Dispatched(last') =>
          LET es == MethodIn(contracts, last').expectations
              tx == RequestContext(last')
              params == RequestParams(last')
          IN  \A i \in 1 .. Len(es) :
                  ExpectationIn(contracts', PlaceOf(last', i)).checked <=>
                      \/ es[i].checked
                      \/ /\ TimesCanCall(es[i].times, es[i].used)
                         /\ \A j \in 1 .. (i - 1) : ~ScanStopsAt(es[j], tx, params)

C31_CheckedFlag ==
    /\ [][C31_Step]_vars
    /\ [](\A x \in AllExpectations :
            ExpectationAt(x).used > 0 => ExpectationAt(x).checked)

(* The first expectation took both calls made so far; the second one,
   registered before them, has not been looked at. *)
C31_Witness ==
    /\ IsCall(last) /\ last.outcome = "ok"
    /\ ReachesMethod(last)
    /\ LET es == MethodIn(contracts, last).expectations
       IN  /\ Len(es) = 2
           /\ es[1].checked /\ es[1].used = 2
           /\ ~es[2].checked /\ es[2].used = 0

(* An expectation was evaluated and did not match: checked, never used. *)
C31_WitnessNoMatch ==
    \E x \in AllExpectations :
        /\ ExpectationAt(x).checked /\ ExpectationAt(x).used = 0
        /\ ~poisoned

----------------------------------------------------------------------------
(* The request is an eth_call or a raw transaction that passes the checks
   made before the target contract is looked up. *)
GetsToLookup(l) ==
    /\ ~poisoned
    /\ IsCall(l) =>
          /\ l.req.block.tag # "Earliest"
          /\ l.req.block.tag = "Number" => l.req.block.n = block
          /\ l.req.arg.to # NoneV
    /\ IsTransaction(l) => l.req.valid /\ NonceOf(l.req.from) = l.req.nonce

(* C32: an eth_call or a raw transaction aborts fatally, and no expectation
   is evaluated, when no contract is deployed at its target address, when
   its call data has fewer than 4 bytes, or when the first 4 bytes are not
   the selector of a method of the target contract. *)
C32_Step ==
    /\ IsCall(last') \/ IsTransaction(last')
    /\ ~ReachesMethod(last')
    => /\ last'.outcome = "fatal"
       /\ last'.ret = <<>>
       /\ contracts' = contracts
       /\ satisfaction_level' = satisfaction_level
       /\ receipts' = receipts
       /\ block' = block
       /\ GetsToLookup(last') =>
             last'.msg =
                IF RequestTo(last') \notin DOMAIN contracts
                THEN <<"there is no mocked contract with address">>
                ELSE IF Len(RequestData(last')) < 4
                THEN <<"transaction has invalid call data">>
                ELSE <<"contract doesn't have method with signature">>

C32_DispatchAborts == [][C32_Step]_vars

(* A raw transaction whose first four bytes name no method of the deployed
   contract aborted; the expectation registered on the contract was not
   looked at. *)
C32_Witness ==
    /\ IsTransaction(last) /\ last.outcome = "fatal"
    /\ last.msg = <<"contract doesn't have method with signature">>
    /\ \E x \in AllExpectations : ~ExpectationAt(x).checked

(* A call with two bytes of data aborted. *)
C32_WitnessShort ==
    /\ IsCall(last) /\ last.outcome = "fatal"
    /\ last.msg = <<"transaction has invalid call data">>

(* A call to an address where nothing is deployed aborted. *)
C32_WitnessUndeployed ==
    /\ IsCall(last) /\ last.outcome = "fatal"
    /\ last.msg = <<"there is no mocked contract with address">>
    /\ contracts # <<>>

----------------------------------------------------------------------------
(* Every member of the sequence that comes before b has been used as often
   as its lower bound asks. *)
EarlierSatisfied(b) ==
    \A x \in AllExpectations :
        /\ ExpectationAt(x).sequence # NoSeq
        /\ ExpectationAt(x).sequence < b.sequence
        => ExpectationAt(x).used >= TimesLowerBound(ExpectationAt(x).times)

(* C33: the obligation of a sequence member is satisfied in every state in
   which its usage count has reached its lower bound, from the start when
   the lower bound is 0; it is marked satisfied at most once (the level of
   the sequence grows by at most one per call, and only with the call that
   brings a member to its lower bound); once the members before it are
   satisfied, the first call of the next member does not abort as out of
   order. *)
C33_Step ==
    /\ satisfaction_level' \in {satisfaction_level, satisfaction_level + 1}
    /\ satisfaction_level' # satisfaction_level =>
          /\ Dispatched(last') /\ Matching(last') # {}
          /\ LET b == MethodIn(contracts, last').expectations[Min(Matching(last'))]
             IN  b.sequence # NoSeq /\ b.used + 1 = TimesLowerBound(b.times)
    /\ Dispatched(last') /\ Matching(last') # {} =>
          LET b == MethodIn(contracts, last').expectations[Min(Matching(last'))]
          IN  /\ b.sequence # NoSeq
              /\ b.used = 0
              /\ EarlierSatisfied(b)
              => last'.msg # <<"method sequence violation">>

C33_SatisfiedAtLowerBound == [][C33_Step]_vars

----------------------------------------------------------------------------
(* The call was answered with a result or a revert; a transaction's revert
   is in its receipt. *)
Answered(l) ==
    \/ IsCall(l) /\ l.outcome \in {"ok", "revert"}
    \/ IsTransaction(l) /\ l.outcome = "ok"

(* C34: every call that returns a result or a revert, eth_call and raw
   transaction alike, adds exactly 1 to the usage count of exactly one
   expectation, the matched one, and leaves the usage count of every other
   expectation of that method, of other methods and of other contracts as
   it was; calls and transactions count on the same counter, so that an
   expectation used up by view calls is gone for a later transaction. *)
C34_Step ==
    /\ Answered(last') =>
          /\ Dispatched(last')
          /\ Matching(last') # {}
          /\ AllExpectations' = AllExpectations
          /\ \A x \in AllExpectations :
                ExpectationIn(contracts', x).used
                    = IF x = PlaceOf(last', Min(Matching(last')))
                      THEN ExpectationAt(x).used + 1
                      ELSE ExpectationAt(x).used
    /\ Dispatched(last') /\ IsTransaction(last') =>
          \A i \in 1 .. Len(MethodIn(contracts, last').expectations) :
              LET e == MethodIn(contracts, last').expectations[i]
              IN  e.times.hi # Unbounded /\ e.used >= e.times.hi =>
                      ExpectationIn(contracts', PlaceOf(last', i)).used = e.used

C34_UsageCountFrame == [][C34_Step]_vars

(* A transaction was answered while expectations of another method and of
   another contract kept their counts. *)
C34_Witness ==
    /\ IsTransaction(last) /\ last.outcome = "ok"
    /\ Cardinality(AllExpectations) = 2
    /\ \E x, y \in AllExpectations :
          /\ x[1] # y[1] /\ x[2] # y[2]
          /\ x = PlaceOf(last, 1)
          /\ ExpectationAt(x).used = 1
          /\ ExpectationAt(y).used = 1

(* The one use of an expectation went to a view call; the transaction that
   came after it found nothing left and aborted. *)
C34_WitnessExhausted ==
    /\ IsTransaction(last) /\ last.outcome = "fatal"
    /\ last.msg = <<"unexpected call">>
    /\ receipts = <<>>
    /\ ReachesMethod(last)
    /\ LET es == MethodIn(contracts, last).expectations
       IN  /\ Len(es) = 1
           /\ es[1].allow_transactions
           /\ es[1].times = Once /\ es[1].used = 1

----------------------------------------------------------------------------
(* The raw transaction of the step ran to completion. *)
Processed(l) == IsTransaction(l) /\ l.outcome = "ok"

(* C35: the block counter never decreases and changes only in
   eth_sendRawTransaction; every processed transaction records one receipt
   and adds 1 plus the confirmations of the expectation it matched, so that
   the counter is the number of receipts plus the confirmations of the
   expectations matched by those transactions; it is 0 exactly while no
   raw transaction has been processed. *)
C35_Step ==
    /\ block' >= block
    /\ block' # block => Processed(last')
    /\ receipts' # receipts => Processed(last')
    /\ Processed(last') =>
          /\ Dispatched(last')
          /\ Matching(last') # {}
          /\ LET e == MethodIn(contracts, last').expectations[Min(Matching(last'))]
             IN  block' = block + 1 + e.confirmations
          /\ Cardinality(DOMAIN receipts') = Cardinality(DOMAIN receipts) + 1

C35_BlockCounter ==
    /\ [][C35_Step]_vars
    /\ [](block = 0 <=> DOMAIN receipts = {})
    /\ [](block >= Cardinality(DOMAIN receipts))

(* Two transactions were processed, one of them with two confirmations. *)
C35_Witness ==
    /\ Processed(last)
    /\ Cardinality(DOMAIN receipts) = 2
    /\ block = 4

(* A transaction aborted on its nonce before any was processed: the block
   counter is still 0. *)
C35_WitnessNone ==
    /\ IsTransaction(last) /\ last.outcome = "fatal"
    /\ block = 0 /\ DOMAIN receipts = {}

----------------------------------------------------------------------------
(* The recorded receipts of the transactions sent by a. *)
ReceiptsFrom(a) == {h \in DOMAIN receipts : receipts[h].from = a}

(* C36: as long as an RPC operation can still run to completion (no abort
   has poisoned the state), the stored nonce of every address is the number
   of recorded receipts whose from is that address; a raw transaction from
   a sender changes the nonce of no other address, and nothing but a raw
   transaction changes a nonce. *)
C36_Step ==
    /\ IsTransaction(last') =>
          \A a \in Senders \cup {ZeroAddress} :
              a # last'.req.from => NonceIn(nonce', a) = NonceOf(a)
    /\ ~IsTransaction(last') =>
          \A a \in Senders \cup {ZeroAddress} : NonceIn(nonce', a) = NonceOf(a)
    /\ Processed(last') =>
          NonceIn(nonce', last'.req.from) = NonceOf(last'.req.from) + 1

C36_NonceCountsReceipts ==
    /\ [][C36_Step]_vars
    /\ [](~poisoned =>
            \A a \in Senders \cup {ZeroAddress} :
                NonceOf(a) = Cardinality(ReceiptsFrom(a)))

(* Two senders had a transaction processed each. *)
C36_Witness ==
    /\ Processed(last)
    /\ ~poisoned
    /\ \A a \in Senders : NonceOf(a) = 1 /\ Cardinality(ReceiptsFrom(a)) = 1

(* After an abort the nonce can be ahead of the receipts: the transaction
   went to an address without a contract. *)
C36_WitnessAborted ==
    /\ IsTransaction(last) /\ last.outcome = "fatal"
    /\ poisoned
    /\ NonceOf(last.req.from) = 1
    /\ ReceiptsFrom(last.req.from) = {}

----------------------------------------------------------------------------
(* The block numbers of the recorded receipts. *)
BlockNumbersIn(rs) == {rs[h].block_number : h \in DOMAIN rs}

(* C37: the receipts of successively processed raw transactions carry
   strictly increasing block numbers; every recorded block number is at
   least 1 and, in every later state, at most the block counter; no two
   receipts share a block number. *)
C37_Step ==
    /\ \A h \in DOMAIN receipts :
          h \in DOMAIN receipts' /\ receipts'[h] = receipts[h]
    /\ Processed(last') =>
          /\ last'.hash \in DOMAIN receipts' \ DOMAIN receipts
          /\ receipts'[last'.hash].block_number = block + 1
          /\ \A n \in BlockNumbersIn(receipts) :
                n < receipts'[last'.hash].block_number

C37_ReceiptBlockNumbers ==
    /\ [][C37_Step]_vars
    /\ [](\A h \in DOMAIN receipts :
            /\ receipts[h].block_number >= 1
            /\ receipts[h].block_number <= block)
    /\ [](\A h, k \in DOMAIN receipts :
            h # k => receipts[h].block_number # receipts[k].block_number)

(* Two receipts, the second one mined after the first one's confirmation. *)
C37_Witness ==
    /\ Processed(last)
    /\ BlockNumbersIn(receipts) = {1, 3}
    /\ receipts[last.hash].block_number = 3
    /\ block = 4

----------------------------------------------------------------------------
(* The call was answered with the context its expectation was given. *)
ReturnsContext(l) == IsCall(l) /\ l.outcome = "ok" /\ Len(l.ret) = 7

(* C38: in the context eth_call hands to predicates and return functions
   the gas price is the chain's gas price whenever the request gives no gas
   price, whatever its gas limit is; the gas is 1 when the request gives no
   gas. *)
C38_Step ==
    ReturnsContext(last') =>
        /\ last'.req.arg.gas_price = NoneV => last'.ret[6] = gas_price
        /\ last'.req.arg.gas = NoneV => last'.ret[5] = 1

C38_ContextGasPrice == [][C38_Step]_vars

----------------------------------------------------------------------------
(* The operation aborted before it took the lock: in send, in a handler's
   parser, or in send_transaction. *)
AbortedUnlocked(l) ==
    /\ l.outcome = "fatal"
    /\ l.op \in {"send", "eth_sendTransaction"}

(* C39: a fatal abort raised with the state lock held (nonce mismatch,
   unmatched call, non-payable value, unknown contract or selector,
   unsupported block, unknown receipt hash) is absorbing: from then on every
   operation of the transport (RPC methods, deploy, expect, prepare) aborts
   as well and the state the aborted operation left is never read or
   changed again; a fatal abort raised before the lock is taken (unsupported
   method, map parameters, notification, eth_sendTransaction) changes
   nothing, and the transport stays as usable as it was. *)
C39_Step ==
    /\ poisoned =>
          /\ poisoned'
          /\ last'.outcome = "fatal"
          /\ last'.ret = <<>>
          /\ UNCHANGED <<chain, satisfaction_level, next_handle>>
    /\ ~poisoned /\ last'.outcome = "fatal" =>
          (poisoned' <=> ~AbortedUnlocked(last'))
    /\ ~poisoned /\ last'.outcome # "fatal" => ~poisoned'
    /\ AbortedUnlocked(last') =>
          UNCHANGED <<chain, poisoned, satisfaction_level, next_handle>>
    /\ ~poisoned /\ last'.op \in {"prepare", "deploy", "update_gas_price",
                                   "eth_blockNumber"} =>
          last'.outcome = "ok"

C39_AbortAbsorbing == [][C39_Step]_vars

(* A transaction aborted after its sender's nonce was incremented; the
   operation after it failed on the lock. *)
C39_Witness ==
    /\ poisoned
    /\ last.outcome = "fatal" /\ last.op = "lock"
    /\ NonceOf(101) = 1
    /\ DOMAIN receipts = {}

(* eth_sendTransaction aborted after a transaction was processed; the
   transport is not poisoned. *)
C39_WitnessUsable ==
    /\ ~poisoned
    /\ AbortedUnlocked(last) /\ last.op = "eth_sendTransaction"
    /\ DOMAIN receipts # {}

====
